---- MODULE Spec2Model ----
(***************************************************************************)
(* glacier-cli: the reconciliation cache (glacier/models.py) and the job   *)
(* coordination of the command line front end (glacier/cli.py).            *)
(*                                                                         *)
(* SpecCache follows the session of one Cache object driven through its    *)
(* methods; SpecApp follows one run of the command line program; SpecWait  *)
(* follows one call of wait_until_job_completed.                           *)
(*                                                                         *)
(* Conventions.  Python's None is modelled by 0 for the integer columns    *)
(* (timestamps are positive, and the code only tests these columns for     *)
(* truthiness) and by "" for the name column (the code tests `not name`).  *)
(* The runs and the sessions followed name one vault; SpecShared follows   *)
(* a session over a table that holds the rows of several vaults and keys.  *)
(***************************************************************************)
EXTENDS Integers, Sequences, FiniteSets, TLC

VARIABLES
    rows,      \* Cache.session: the archive table as the open session sees it
    now,       \* the last reading of time.time()
    log,       \* the log records emitted by the last Cache call
    stored,    \* the archive table as last committed to the database
    jobs,      \* the vault's jobs at the remote service
    args,      \* App.args: the parsed command line of the run
    pc,        \* where the run stands
    held,      \* the Job resources the run holds, with the fields last loaded
    tries,     \* wait_until_job_completed: tries
    cont,      \* the caller the wait returns to
    sel,       \* the job the coordinator settled on
    inv,       \* _vault_sync_reconcile: the parsed job output
    ret,       \* archive_retrieve: loop position, success_list, retry_list
    last_seen, \* archive_checkpresent: last_seen
    outcome,   \* how args.func() ended ("" while it runs)
    exitcode,  \* the exit status of the process (-1 while it runs)
    stdout,    \* lines printed to standard output
    stderr,    \* lines printed to standard error
    sleeps,    \* number of time.sleep calls made
    polls,     \* number of update_job_list calls made
    did,       \* the remote and cache calls made, in order
    multipart, \* archive_upload: the multipart upload and the exception caught
    dest,      \* archive_retrieve: the destination written and truncate's errno
    fpos,      \* the position of the file object the WrappedFiles share
    wrapped,   \* the WrappedFile objects: start, end, pos
    data       \* the last call on a WrappedFile and what it returned

cacheVars == <<rows, now, log>>

appVars ==
    <<jobs, args, pc, held, tries, cont, sel, inv, ret, last_seen, outcome,
      exitcode, stdout, stderr, sleeps, polls, did, multipart, dest, fpos, wrapped,
      data>>

vars ==
    <<rows, now, log, stored, jobs, args, pc, held, tries, cont, sel, inv,
      ret, last_seen, outcome, exitcode, stdout, stderr, sleeps, polls, did,
      multipart, dest, fpos, wrapped, data>>

----------------------------------------------------------------------------
(* Bounds and program constants *)

\* models.py:22
INVENTORY_LAG == 24 * 60 * 60 * 3

\* number of early clock values modelled
MaxTick == 2

\* Clock values: MaxTick early ones, and two that lie INVENTORY_LAG after
\* the first two, so that every comparison with a lag has its <, = and >.
Times == (1 .. MaxTick) \cup {INVENTORY_LAG + 1, INVENTORY_LAG + 2}

None == 0

Ids == {"A"}

Names == {"", "n1", "n2"}

Sizes == {None, 1}

Max(a, b) == IF a >= b THEN a ELSE b

\* self.args.vault: the vault that the runs and the sessions name
Vault == "v1"

----------------------------------------------------------------------------
(* glacier/models.py: class Cache *)

\* Cache.key: get_cache_key(), the access key of the session the Cache
\* object was made for
self_key == "k1"

\* Cache.Archive.__init__: created_here is the clock at construction; the
\* columns not given stay None.  Every caller gives key=self.key and the
\* vault.
Archive(t, vault, id, name, size, last_seen_upstream) ==
    [key |-> self_key, vault |-> vault,
     id |-> id, name |-> name, size |-> size,
     last_seen_upstream |-> last_seen_upstream,
     created_here |-> t, deleted_here |-> None]

\* The live rows only looked through for the id.
ById_live(rs, vault, id) ==
    {r \in rs : /\ r.key = self_key /\ r.vault = vault /\ r.id = id
                /\ r.deleted_here = None}

\* The rows of every vault taken for the rows of this one.
ById_anyvault(rs, vault, id) == {r \in rs : r.key = self_key /\ r.id = id}

\* query(Archive).filter_by(key=self.key, vault=vault, id=id)
ById(rs, vault, id) ==
    {r \in rs : r.key = self_key /\ r.vault = vault /\ r.id = id}

\* query(Archive).filter_by(key, vault, deleted_here=None, **filter)
_get_archive_query_by_ref(rs, vault, ref) ==
    LET q == {r \in rs : /\ r.key = self_key
                         /\ r.vault = vault
                         /\ r.deleted_here = None}
    IN IF ref.kind = "id"
       THEN {r \in q : r.id = ref.val}
       ELSE {r \in q : r.name = ref.val}

\* Cache.get_archive_last_seen: .one() raises unless exactly one row matches
\* (KeyError for none); last_seen_upstream or created_here.
get_archive_last_seen(rs, vault, ref) ==
    LET q == _get_archive_query_by_ref(rs, vault, ref) IN
    IF Cardinality(q) = 1
    THEN LET result == CHOOSE r \in q : TRUE IN
         [raised |-> "",
          value |-> IF result.last_seen_upstream # None
                    THEN result.last_seen_upstream ELSE result.created_here]
    ELSE [raised |-> IF q = {} THEN "KeyError" ELSE "MultipleResultsFound",
          value |-> None]

\* Cache.get_archive_id
get_archive_id(rs, vault, ref) ==
    LET q == _get_archive_query_by_ref(rs, vault, ref) IN
    IF Cardinality(q) = 1
    THEN [raised |-> "", value |-> (CHOOSE r \in q : TRUE).id]
    ELSE [raised |-> IF q = {} THEN "KeyError" ELSE "MultipleResultsFound",
          value |-> ""]

\* The date of the inventory taken as it is, without the lag rule.
LastSeenValue_nolag(upstream_inventory_date, upstream_inventory_job_creation_date) ==
    upstream_inventory_date

\* The value Cache.mark_seen_upstream computes for last_seen_upstream.
LastSeenValue(upstream_inventory_date, upstream_inventory_job_creation_date) ==
    Max(upstream_inventory_date,
        upstream_inventory_job_creation_date - INVENTORY_LAG)

\* A slip in the row that mark_seen_upstream creates: the name is left out.
mark_seen_upstream_noname(rs, t, vault, id, name, size, upstream_creation_date, upstream_inventory_date, upstream_inventory_job_creation_date, fix) ==
    LET last_seen_upstream ==
            LastSeenValue(upstream_inventory_date,
                          upstream_inventory_job_creation_date)
        q == ById(rs, vault, id)
    IN  IF q = {}
        THEN [rows |-> rs \cup {Archive(t, vault, id, "", size, last_seen_upstream)},
              log |-> {}]
        ELSE
          LET archive == CHOOSE r \in q : TRUE
              newName == IF archive.name = "" \/ (archive.name # name /\ fix)
                         THEN name ELSE archive.name
              newSize == IF archive.size = None \/ (archive.size # size /\ fix)
                         THEN size ELSE archive.size
          IN [rows |-> (rs \ {archive})
                         \cup {[archive EXCEPT !.name = newName,
                                    !.size = newSize,
                                    !.last_seen_upstream = last_seen_upstream]},
              log |-> {}]

\* The inventory's name and size written over the row's whatever fix says.
mark_seen_upstream_overwrite(rs, t, vault, id, name, size, upstream_creation_date, upstream_inventory_date, upstream_inventory_job_creation_date, fix) ==
    LET last_seen_upstream ==
            LastSeenValue(upstream_inventory_date,
                          upstream_inventory_job_creation_date)
        q == ById(rs, vault, id)
    IN  IF q = {}
        THEN [rows |-> rs \cup {Archive(t, vault, id, name, size, last_seen_upstream)},
              log |-> {}]
        ELSE LET archive == CHOOSE r \in q : TRUE
             IN [rows |-> (rs \ {archive})
                            \cup {[archive EXCEPT !.name = name,
                                       !.size = size,
                                       !.last_seen_upstream = last_seen_upstream]},
                 log |-> {}]

\* Cache.mark_seen_upstream: the rows of the session afterwards and the log
\* records written.  t is the clock read by Archive.__init__ when a row is
\* created.
mark_seen_upstream(rs, t, vault, id, name, size, upstream_creation_date, upstream_inventory_date, upstream_inventory_job_creation_date, fix) ==
    LET last_seen_upstream ==
            LastSeenValue(upstream_inventory_date,
                          upstream_inventory_job_creation_date)
        q == ById(rs, vault, id)
    IN  IF q = {}
        THEN [rows |-> rs \cup {Archive(t, vault, id, name, size, last_seen_upstream)},
              log |-> {}]
        ELSE
          LET archive == CHOOSE r \in q : TRUE
              nameDiffers == archive.name # "" /\ archive.name # name
              sizeDiffers == archive.size # None /\ archive.size # size
              newName == IF archive.name = "" THEN name
                         ELSE IF nameDiffers /\ fix THEN name
                         ELSE archive.name
              newSize == IF archive.size = None THEN size
                         ELSE IF sizeDiffers /\ fix THEN size
                         ELSE archive.size
              updated == [archive EXCEPT !.name = newName, !.size = newSize,
                              !.last_seen_upstream = last_seen_upstream]
          IN [rows |-> (rs \ {archive}) \cup {updated},
              log |->
                (IF nameDiffers
                 THEN {[ev |-> IF fix THEN "name changed (fixed)"
                               ELSE "name changed", id |-> id]}
                 ELSE {})
                \cup
                (IF sizeDiffers
                 THEN {[ev |-> IF fix THEN "size changed (fixed)"
                               ELSE "size changed", id |-> id]}
                 ELSE {})
                \cup
                (IF archive.deleted_here # None
                 THEN {[ev |-> IF archive.deleted_here < upstream_inventory_date
                               THEN "marked deleted but still present"
                               ELSE "deletion not yet in inventory",
                        id |-> id]}
                 ELSE {})]

\* An off-by-one in the age test of mark_only_seen: <= for <.
MissingCase_le(archive, inventory_date) ==
    IF archive.deleted_here # None /\ archive.deleted_here < inventory_date
    THEN "purge"
    ELSE IF archive.deleted_here = None
            /\ (archive.last_seen_upstream # None
                \/ archive.created_here <= inventory_date - INVENTORY_LAG)
    THEN "disappeared"
    ELSE "new"

\* A tombstone purged without comparing deleted_here to the inventory date.
MissingCase_nodate(archive, inventory_date) ==
    IF archive.deleted_here # None
    THEN "purge"
    ELSE IF archive.last_seen_upstream # None
            \/ archive.created_here < inventory_date - INVENTORY_LAG
    THEN "disappeared"
    ELSE "new"

\* Cache.mark_only_seen, the branch taken for one row missing from the
\* inventory: "purge" (tombstone confirmed), "disappeared", "new".
MissingCase(archive, inventory_date) ==
    IF archive.deleted_here # None /\ archive.deleted_here < inventory_date
    THEN "purge"
    ELSE IF archive.deleted_here = None
            /\ (archive.last_seen_upstream # None
                \/ (archive.created_here # None
                    /\ archive.created_here < inventory_date - INVENTORY_LAG))
    THEN "disappeared"
    ELSE "new"

\* Cache.mark_only_seen
mark_only_seen(rs, vault, inventory_date, ids, fix) ==
    LET our_ids == {r.id : r \in {x \in rs : /\ x.key = self_key
                                              /\ x.vault = vault}}
        missing_ids == our_ids \ ids
        missing == UNION {ById(rs, vault, id) : id \in missing_ids}
        deleted == {r \in missing :
                       \/ MissingCase(r, inventory_date) = "purge"
                       \/ MissingCase(r, inventory_date) = "disappeared" /\ fix}
    IN  [rows |-> rs \ deleted,
         log |-> {[ev |-> CASE MissingCase(r, inventory_date) = "purge"
                                 -> "deleted archive has left inventory"
                            [] MissingCase(r, inventory_date) = "disappeared"
                                 -> IF fix
                                    THEN "archive disappeared (removed from cache)"
                                    ELSE "archive disappeared"
                            [] OTHER -> "new archive not yet in inventory",
                   id |-> r.id] : r \in missing}]

----------------------------------------------------------------------------
(* SpecCache: one Cache object driven through its methods.  The session   *)
(* is what is followed: a commit does not change what the session sees,    *)
(* and what reaches the database file is followed in SpecApp.              *)

\* Cache.add_archive(vault_name, name, size, archive): the row added to the
\* session (and committed).
add_archive(rs, t, vault, name, size, id) ==
    rs \cup {Archive(t, vault, id, name, size, None)}

\* The row deleted from the table instead of marked.
delete_archive_purge(rs, t, vault, ref) == rs \ _get_archive_query_by_ref(rs, vault, ref)

\* Cache.delete_archive(vault, ref): the matching live row is tombstoned.
delete_archive(rs, t, vault, ref) ==
    LET result == CHOOSE r \in _get_archive_query_by_ref(rs, vault, ref) : TRUE
    IN (rs \ {result}) \cup {[result EXCEPT !.deleted_here = t]}

Refs == [kind : {"id"}, val : Ids] \cup [kind : {"name"}, val : Names]

\* The jobs of the vault are numbered: PreJobs may exist when a run starts,
\* and a run submits at most one job per name it is given.
MaxNames == 2

PreJobs == {1, 2}

JobIds == PreJobs \cup {Cardinality(PreJobs) + k : k \in 1 .. MaxNames}

\* A slot of the job table that holds no job.
NoJob ==
    [action |-> "none", archive_id |-> "", completed |-> FALSE,
     completion_date |-> None, status_code |-> ""]

NoArgs ==
    [func |-> "", wait |-> FALSE, fix |-> FALSE, max_age_hours |-> 0,
     quiet |-> FALSE, name |-> "", names |-> <<>>, output_filename |-> "",
     tries |-> 0, multipart_size |-> 0, file |-> 0, force_ids |-> FALSE]

NoHeld == [j \in {} |-> NoJob]

NoInventory == [date |-> None, list |-> <<>>]

NoRetrieve == [i |-> 0, success_list |-> <<>>, retry_list |-> <<>>]

\* The destination of a download before anything is written: an empty file,
\* and no truncate yet
NoDest == [written |-> [len |-> 0, intact |-> TRUE], errno |-> ""]

\* archive_upload before its multipart branch: multipart = None
NoMultipart ==
    [state |-> "none", parts |-> <<>>, archiveSize |-> None,
     checksum |-> <<>>, caught |-> ""]

\* No WrappedFile has been constructed and nothing has been read.
NoWrapped == [w \in {} |-> [start |-> 0, end |-> 0, pos |-> 0]]

\* The last call on a WrappedFile: the object, the method, its argument,
\* the bytes returned and the exception raised
NoData == [by |-> 0, op |-> "", size |-> 0, bytes |-> <<>>, raised |-> ""]

\* No run of the command line program is in progress.
NoRun ==
    /\ jobs = [j \in JobIds |-> NoJob]
    /\ args = NoArgs
    /\ pc = "done"
    /\ held = NoHeld
    /\ tries = 0
    /\ cont = ""
    /\ sel = 0
    /\ inv = NoInventory
    /\ ret = NoRetrieve
    /\ last_seen = None
    /\ outcome = ""
    /\ exitcode = -1
    /\ stdout = <<>>
    /\ stderr = <<>>
    /\ sleeps = 0
    /\ polls = 0
    /\ did = <<>>
    /\ multipart = NoMultipart
    /\ dest = NoDest
    /\ fpos = 0
    /\ wrapped = NoWrapped
    /\ data = NoData

InitCache ==
    /\ rows = {}
    /\ now = 1
    /\ log = {}
    /\ stored = {}
    /\ NoRun

\* A client calls add_archive with the id of a new upload (the remote
\* service hands out ids that no row has).
CacheAddArchive ==
    \E t \in Times, id \in Ids, name \in Names, size \in Sizes :
        /\ t >= now
        /\ ById(rows, Vault, id) = {}
        /\ rows' = add_archive(rows, t, Vault, name, size, id)
        /\ now' = t
        /\ log' = {}
        /\ UNCHANGED <<stored, appVars>>

\* A client calls delete_archive; .one() raises unless one live row matches.
CacheDeleteArchive ==
    \E t \in Times, ref \in Refs :
        /\ t >= now
        /\ Cardinality(_get_archive_query_by_ref(rows, Vault, ref)) = 1
        /\ rows' = delete_archive(rows, t, Vault, ref)
        /\ now' = t
        /\ log' = {}
        /\ UNCHANGED <<stored, appVars>>

\* A client calls mark_seen_upstream with every argument.
CacheMarkSeenUpstream ==
    \E id \in Ids, name \in Names, size \in Sizes,
       upstream_creation_date \in Times,
       upstream_inventory_date \in Times,
       upstream_inventory_job_creation_date \in Times,
       fix \in BOOLEAN :
      \E t \in IF ById(rows, Vault, id) = {} THEN {u \in Times : u >= now} ELSE {now} :
        LET res == mark_seen_upstream(rows, t, Vault, id, name, size,
                                      upstream_creation_date,
                                      upstream_inventory_date,
                                      upstream_inventory_job_creation_date,
                                      fix)
        IN /\ rows' = res.rows
           /\ log' = res.log
           /\ now' = t
           /\ UNCHANGED <<stored, appVars>>

\* A client calls mark_only_seen.
CacheMarkOnlySeen ==
    \E inventory_date \in Times, ids \in SUBSET Ids, fix \in BOOLEAN :
        LET res == mark_only_seen(rows, Vault, inventory_date, ids, fix)
        IN /\ rows' = res.rows
           /\ log' = res.log
           /\ UNCHANGED <<now, stored, appVars>>

NextCache ==
    \/ CacheAddArchive
    \/ CacheDeleteArchive
    \/ CacheMarkSeenUpstream
    \/ CacheMarkOnlySeen

SpecCache == InitCache /\ [][NextCache]_vars

----------------------------------------------------------------------------
(* The command line program (glacier/cli.py)                               *)
(*                                                                         *)
(* SpecApp follows one run of the program: App.main calls args.func, and   *)
(* the run ends with an exit status.  The remote service completes pending *)
(* jobs while the run is under way, and the user may interrupt the run.    *)

\* wait_until_job_completed(jobs, sleep=600, tries=144)
DefaultTries == 144

\* number of tries a caller passes to wait_until_job_completed directly
MaxTries == 3

\* vault.jobs.all() / job.reload(): the fields of the jobs js as loaded now
Load(js, S) == [j \in S |-> js[j]]

find_retrieval_jobs(js, archive_id) ==
    {j \in JobIds : js[j].archive_id = archive_id}

recent_enough(job, t, max_age_hours) ==
    IF max_age_hours # 0
    THEN \/ ~job.completed
         \/ job.completion_date > t - max_age_hours * 60 * 60
    ELSE ~job.completed

find_inventory_jobs(js, t, max_age_hours) ==
    {j \in JobIds : /\ js[j].action = "InventoryRetrieval"
                    /\ recent_enough(js[j], t, max_age_hours)}

\* No job is ever taken as completed.
find_complete_job_none(h) == {}

\* The first completed job of the listing, whatever its completion date.
find_complete_job_unsorted(h) ==
    LET completed == {j \in DOMAIN h : h[j].completed}
    IN {j \in completed : \A k \in completed : j <= k}

\* find_complete_job(jobs): the completed job with the latest completion
\* date; the set is empty where the code returns None, and holds more than
\* one job where the order of the listing decides between equal dates.
find_complete_job(h) ==
    LET completed == {j \in DOMAIN h : h[j].completed}
    IN {j \in completed :
          \A k \in completed : h[k].completion_date <= h[j].completion_date}

\* No job is ever taken as pending.
has_pending_job_never(h) == FALSE

has_pending_job(h) == \E j \in DOMAIN h : ~h[j].completed

\* The id the service gives to the next job submitted.
NewJobId(js) ==
    CHOOSE j \in JobIds :
        /\ js[j].action = "none"
        /\ \A k \in JobIds : js[k].action = "none" => j <= k

Submitted(action, archive_id) ==
    [action |-> action, archive_id |-> archive_id, completed |-> FALSE,
     completion_date |-> None, status_code |-> "InProgress"]

\* `wait` as _vault_sync and archive_retrieve_one receive it
Wait_always == TRUE

Wait == args.wait

\* `fix` as _vault_sync receives it: args.fix from vault_sync, False from
\* archive_checkpresent
Fix == IF args.func = "vault_sync" THEN args.fix ELSE FALSE

\* wait_until_job_completed: max_tries = tries, the number of tries the
\* caller gave (every caller in cli.py leaves the default)
max_tries ==
    IF args.func = "wait_until_job_completed" THEN args.tries
    ELSE DefaultTries

\* App.main: the exit status for the way args.func() ended; an exception
\* that main does not catch ends the interpreter with status 1.
main(ended) ==
    CASE ended = "return" -> 0
      [] ended = "KeyboardInterrupt" -> 130
      [] ended = "RetryConsoleError" -> 75
      [] ended = "ConsoleError" -> 1
      [] ended = "RuntimeError" -> 1
      [] OTHER -> 1

\* args.func() returns
Returns == pc' = "main" /\ outcome' = "return"

\* An exception leaves args.func()
Raises(exc) == pc' = "main" /\ outcome' = exc

\* _vault_sync returns to vault_sync or to archive_checkpresent
SyncReturns ==
    IF args.func = "archive_checkpresent"
    THEN pc' = "cp_reread" /\ outcome' = outcome
    ELSE Returns

\* An exception leaves _vault_sync; archive_checkpresent catches
\* RetryConsoleError and passes on
SyncRaises(exc) ==
    IF args.func = "archive_checkpresent" /\ exc = "RetryConsoleError"
    THEN pc' = "cp_final" /\ outcome' = outcome
    ELSE Raises(exc)

\* _vault_sync up to its branch: the inventory jobs are listed, and the
\* newest completed one is reconciled, a pending one is awaited or
\* reported, or a new job is to be submitted.
VaultSyncFind ==
    /\ pc = "sync"
    /\ LET inventory_jobs ==
               Load(jobs, find_inventory_jobs(jobs, now, args.max_age_hours))
       IN /\ held' = inventory_jobs
          /\ IF find_complete_job(inventory_jobs) # {}
             THEN /\ \E complete_job \in find_complete_job(inventory_jobs) :
                         sel' = complete_job
                  /\ pc' = "reconcile"
                  /\ UNCHANGED <<outcome, tries, cont>>
             ELSE IF has_pending_job(inventory_jobs)
             THEN IF Wait
                  THEN /\ pc' = "wait"
                       /\ tries' = max_tries
                       /\ cont' = "sync_pending"
                       /\ UNCHANGED <<outcome, sel>>
                  ELSE /\ SyncRaises("RetryConsoleError")
                       /\ UNCHANGED <<sel, tries, cont>>
             ELSE /\ pc' = "sync_initiate"
                  /\ UNCHANGED <<outcome, sel, tries, cont>>
    /\ UNCHANGED <<rows, now, log, stored, jobs, args, inv, ret, last_seen,
                   exitcode, stdout, stderr, sleeps, polls, did,
                   multipart, dest, fpos, wrapped, data>>

\* _vault_sync, no job listed: vault.initiate_inventory_retrieval()
VaultSyncInitiate ==
    /\ pc = "sync_initiate"
    /\ LET job == NewJobId(jobs)
       IN /\ jobs' = [jobs EXCEPT ![job] = Submitted("InventoryRetrieval", "")]
          /\ held' = Load(jobs', {job})
          /\ sel' = job
    /\ did' = Append(did, "initiate_inventory_retrieval")
    /\ IF Wait
       THEN /\ pc' = "wait"
            /\ tries' = max_tries
            /\ cont' = "sync_queued"
            /\ UNCHANGED outcome
       ELSE /\ SyncRaises("RetryConsoleError")
            /\ UNCHANGED <<tries, cont>>
    /\ UNCHANGED <<rows, now, log, stored, args, inv, ret, last_seen,
                   exitcode, stdout, stderr, sleeps, polls,
                   multipart, dest, fpos, wrapped, data>>

\* wait_until_job_completed: `tries < 0` after the decrement
Expired_late(n) == n < -1

Expired(n) == n < 0

\* wait_until_job_completed returns job to its caller
WaitReturns(job) ==
    CASE cont = "sync_pending" ->
            \* complete_job = wait_until_job_completed(inventory_jobs), and
            \* _vault_sync ends
            sel' = job /\ SyncReturns
      [] cont = "sync_queued" ->
            \* the result is dropped; the submitted job is reconciled
            sel' = sel /\ pc' = "reconcile" /\ outcome' = outcome
      [] cont = "rt_pending" ->
            sel' = job /\ pc' = "rt_write" /\ outcome' = outcome
      [] cont = "rt_queued" ->
            sel' = sel /\ pc' = "rt_write" /\ outcome' = outcome
      [] OTHER ->
            sel' = job /\ Returns

\* wait_until_job_completed: update_job_list and find_complete_job, then
\* the return, the timeout, or the way into time.sleep.  tries, sleeps and
\* polls belong to the call and go with it when it ends.
WaitPoll ==
    /\ pc = "wait"
    /\ LET reloaded == Load(jobs, DOMAIN held)
       IN /\ held' = reloaded
          /\ IF find_complete_job(reloaded) # {}
             THEN /\ \E job \in find_complete_job(reloaded) : WaitReturns(job)
                  /\ tries' = 0 /\ sleeps' = 0 /\ polls' = 0
             ELSE IF Expired(tries - 1)
             THEN /\ Raises("RuntimeError")
                  /\ tries' = 0 /\ sleeps' = 0 /\ polls' = 0
                  /\ UNCHANGED sel
             ELSE /\ tries' = tries - 1
                  /\ polls' = polls + 1
                  /\ pc' = "sleep"
                  /\ UNCHANGED <<outcome, sel, sleeps>>
    /\ UNCHANGED <<rows, now, log, stored, jobs, args, cont, inv, ret,
                   last_seen, exitcode, stdout, stderr, did,
                   multipart, dest, fpos, wrapped, data>>

\* time.sleep(sleep) returns; the clock has moved on
WaitSleep ==
    /\ pc = "sleep"
    /\ sleeps' = sleeps + 1
    /\ \E t \in Times : t >= now /\ now' = t
    /\ pc' = "wait"
    /\ UNCHANGED <<rows, log, stored, jobs, args, held, tries, cont, sel, inv,
                   ret, last_seen, outcome, exitcode, stdout, stderr, polls,
                   did,
                   multipart, dest, fpos, wrapped, data>>

\* The keyword arguments Cache.mark_seen_upstream cannot be called without
\* (models.py:154-157; fix has a default), and the keyword arguments that
\* _vault_sync_reconcile passes (cli.py:210-217).
MarkSeenUpstreamRequired ==
    {"vault", "id", "name", "size", "upstream_creation_date",
     "upstream_inventory_date", "upstream_inventory_job_creation_date"}

ReconcilePasses ==
    {"vault", "id", "name", "upstream_creation_date",
     "upstream_inventory_date", "upstream_inventory_job_creation_date", "fix"}

\* The ArchiveList of an inventory that the service may return.
InventoryLists ==
    {<<>>} \cup
    {<<e>> : e \in [id : Ids, name : {"n1"}, creation_date : {1}]}

\* _vault_sync_reconcile: job.get_output() and the parsing of the response;
\* a job that failed has no output, and the service answers the call with
\* an error
ReconcileOutput ==
    /\ pc = "reconcile"
    /\ did' = Append(did, "get_output")
    /\ IF jobs[sel].status_code = "Failed"
       THEN SyncRaises("ClientError") /\ UNCHANGED inv
       ELSE /\ \E inventory_date \in Times, list \in InventoryLists :
                  /\ inventory_date <= now
                  /\ inv' = [date |-> inventory_date, list |-> list]
            /\ pc' = "rec_seen"
            /\ UNCHANGED outcome
    /\ UNCHANGED <<rows, now, log, stored, jobs, args, held, tries, cont, sel,
                   ret, last_seen, exitcode, stdout, stderr, sleeps,
                   polls,
                   multipart, dest, fpos, wrapped, data>>

\* _vault_sync_reconcile: the loop over the ArchiveList.  The first call of
\* mark_seen_upstream is made without `size` and raises TypeError before the
\* method body runs; with an empty list the loop makes no call.
ReconcileSightings ==
    /\ pc = "rec_seen"
    /\ IF inv.list = <<>>
       THEN /\ pc' = "rec_only_seen"
            /\ UNCHANGED <<outcome, did>>
       ELSE /\ ~(MarkSeenUpstreamRequired \subseteq ReconcilePasses)
            /\ did' = Append(did, "mark_seen_upstream")
            /\ SyncRaises("TypeError")
    /\ UNCHANGED <<rows, now, log, stored, jobs, args, held, tries, cont, sel,
                   inv, ret, last_seen, exitcode, stdout, stderr, sleeps,
                   polls,
                   multipart, dest, fpos, wrapped, data>>

\* What the database file holds after a Cache call that does not commit:
\* the changes stay in the transaction of the session.
Uncommitted_autocommit(st, rs) == rs

Uncommitted(st, rs) == st

\* _vault_sync_reconcile: cache.mark_only_seen(vault, inventory_date,
\* seen_ids, fix) with the ids the loop collected
ReconcileOnlySeen ==
    /\ pc = "rec_only_seen"
    /\ LET res == mark_only_seen(rows, Vault, inv.date, {}, Fix)
       IN /\ rows' = res.rows
          /\ log' = res.log
          /\ stored' = Uncommitted(stored, res.rows)
    /\ did' = Append(did, "mark_only_seen")
    /\ pc' = "rec_commit"
    /\ UNCHANGED <<now, jobs, args, held, tries, cont, sel, inv, ret,
                   last_seen, outcome, exitcode, stdout, stderr, sleeps,
                   polls,
                   multipart, dest, fpos, wrapped, data>>

\* _vault_sync_reconcile: cache.mark_commit(), and _vault_sync returns
ReconcileCommit ==
    /\ pc = "rec_commit"
    /\ stored' = rows
    /\ did' = Append(did, "mark_commit")
    /\ SyncReturns
    /\ UNCHANGED <<rows, now, log, jobs, args, held, tries, cont, sel, inv,
                   ret, last_seen, exitcode, stdout, stderr, sleeps, polls,
                   multipart, dest, fpos, wrapped, data>>

\* A name given on the command line as _get_archive_query_by_ref reads it
NameRef(name) == [kind |-> "name", val |-> name]

\* archive_checkpresent: too_old(last_seen)
too_old_nozero(seen, t, max_age_hours) ==
    \/ seen = None
    \/ seen < t - max_age_hours * 60 * 60

too_old(seen, t, max_age_hours) ==
    \/ seen = None
    \/ max_age_hours = 0
    \/ seen < t - max_age_hours * 60 * 60

\* print(..., file=sys.stderr) unless --quiet
Say(line) ==
    IF args.quiet THEN stderr
    ELSE Append(stderr, [msg |-> line, name |-> args.name])

\* archive_checkpresent: the first lookup of last_seen
CheckpresentLookup ==
    /\ pc = "checkpresent"
    /\ LET res == get_archive_last_seen(rows, Vault, NameRef(args.name))
       IN CASE res.raised = "KeyError" /\ args.wait ->
                 /\ last_seen' = None
                 /\ pc' = "cp_too_old"
                 /\ UNCHANGED <<outcome, stderr>>
            [] res.raised = "KeyError" /\ ~args.wait ->
                 /\ stderr' = Say("not found")
                 /\ Returns
                 /\ UNCHANGED last_seen
            [] res.raised = "" ->
                 /\ last_seen' = res.value
                 /\ pc' = "cp_too_old"
                 /\ UNCHANGED <<outcome, stderr>>
            [] OTHER ->
                 /\ Raises(res.raised)
                 /\ UNCHANGED <<last_seen, stderr>>
    /\ UNCHANGED <<rows, now, log, stored, jobs, args, held, tries, cont, sel,
                   inv, ret, exitcode, stdout, sleeps, polls, did,
                   multipart, dest, fpos, wrapped, data>>

\* archive_checkpresent: the first too_old(last_seen) test
CheckpresentTooOld ==
    /\ pc = "cp_too_old"
    /\ pc' = IF too_old(last_seen, now, args.max_age_hours)
             THEN "sync" ELSE "cp_final"
    /\ UNCHANGED <<rows, now, log, stored, jobs, args, held, tries, cont, sel,
                   inv, ret, last_seen, outcome, exitcode, stdout, stderr,
                   sleeps, polls, did,
                   multipart, dest, fpos, wrapped, data>>

\* archive_checkpresent: _vault_sync has returned, last_seen is read again
CheckpresentReread ==
    /\ pc = "cp_reread"
    /\ LET res == get_archive_last_seen(rows, Vault, NameRef(args.name))
       IN CASE res.raised = "KeyError" ->
                 /\ stderr' = Say("not found, may not be in the inventory yet")
                 /\ Returns
                 /\ UNCHANGED last_seen
            [] res.raised = "" ->
                 /\ last_seen' = res.value
                 /\ pc' = "cp_final"
                 /\ UNCHANGED <<outcome, stderr>>
            [] OTHER ->
                 /\ Raises(res.raised)
                 /\ UNCHANGED <<last_seen, stderr>>
    /\ UNCHANGED <<rows, now, log, stored, jobs, args, held, tries, cont, sel,
                   inv, ret, exitcode, stdout, sleeps, polls, did,
                   multipart, dest, fpos, wrapped, data>>

\* archive_checkpresent: the last too_old(last_seen) test and the print
CheckpresentFinal ==
    /\ pc = "cp_final"
    /\ IF too_old(last_seen, now, args.max_age_hours)
       THEN /\ stderr' = Say("not seen recently enough")
            /\ UNCHANGED stdout
       ELSE /\ stdout' = Append(stdout, args.name)
            /\ UNCHANGED stderr
    /\ Returns
    /\ UNCHANGED <<rows, now, log, stored, jobs, args, held, tries, cont, sel,
                   inv, ret, last_seen, exitcode, sleeps, polls, did,
                   multipart, dest, fpos, wrapped, data>>

-----------------------------------------------------------------------------
(* glacier/utils.py and glacier/cli.py: chunk sizes and the chunk loops *)

\* The files uploaded and the archives retrieved hold up to MaxWhole whole
\* chunks and a rest.
MaxWhole == 3

MiB == 1024 * 1024

\* --multipart-size of `archive upload` when not given
UploadMultipartSize == 32 * MiB

\* --multipart-size of `archive retrieve` when not given
RetrieveMultipartSize == 8 * MiB

\* The n with num = 2**n, or -1 when there is none (2**31 and 2**32 are
\* beyond the 32-bit integers of TLC, so the powers are not written out)
RECURSIVE Exponent(_)
Exponent(num) ==
    IF num = 1 THEN 0
    ELSE IF num < 1 \/ num % 2 # 0 THEN -1
    ELSE LET n == Exponent(num \div 2) IN IF n < 0 THEN -1 ELSE n + 1

\* validate_multipart_bytes(num_bytes): ValueError unless num_bytes is in
\* [2**n for n in range(20, 33)]; the value returned is the exception raised
validate_multipart_bytes(num_bytes) ==
    IF Exponent(num_bytes) \in 20 .. 32 THEN "" ELSE "ValueError"

RECURSIVE xrange_through(_, _, _)
xrange_through(start, stop, step) ==
    IF start > stop THEN <<>>
    ELSE <<start>> \o xrange_through(start + step, stop, step)

\* xrange(start, stop, step) for a positive step
RECURSIVE xrange(_, _, _)
xrange(start, stop, step) ==
    IF start >= stop THEN <<>>
    ELSE <<start>> \o xrange(start + step, stop, step)

\* archive_upload: the (start_byte, end_byte) pairs _upload is called with,
\* in order
UploadParts(file_size, multipart_size) ==
    LET whole_parts == file_size \div multipart_size
        remainder == file_size % multipart_size
        firsts == xrange(0, whole_parts * multipart_size, multipart_size)
    IN [n \in 1 .. Len(firsts) |->
            [start |-> firsts[n], end |-> firsts[n] + multipart_size]]
       \o (IF remainder # 0
           THEN <<[start |-> file_size - remainder, end |-> file_size]>>
           ELSE <<>>)

\* _upload: range='bytes {}-{}/*'.format(start_byte, end_byte - 1)
UploadRange(p) == [unit |-> "bytes ", first |-> p.start, last |-> p.end - 1]

\* _write_archive_retrieval_job: the (start, end) pairs fetch is called
\* with, in order
FetchParts(archive_size_in_bytes, multipart_size) ==
    LET whole_parts == archive_size_in_bytes \div multipart_size
        remainder == archive_size_in_bytes % multipart_size
        firsts == xrange(0, whole_parts * multipart_size, multipart_size)
    IN [n \in 1 .. Len(firsts) |->
            [start |-> firsts[n], end |-> firsts[n] + multipart_size]]
       \o (IF remainder # 0
           THEN <<[start |-> archive_size_in_bytes - remainder,
                   end |-> archive_size_in_bytes]>>
           ELSE <<>>)

\* fetch: range='bytes={}-{}'.format(start, end - 1)
FetchRange(p) == [unit |-> "bytes=", first |-> p.start, last |-> p.end - 1]

\* The bytes a range header names, as the service reads it: first to last,
\* both included
Named(range) == [start |-> range.first, end |-> range.last + 1]

-----------------------------------------------------------------------------
(* glacier/cli.py: App.archive_upload *)

\* A stream of len bytes, as sent or as received
Content(len) == [len |-> len, intact |-> TRUE]

\* botocore.utils.calculate_tree_hash: equal contents, equal hashes
calculate_tree_hash(body) == <<"sha256_tree_hash", body>>

\* os.path.basename(args.file.name)
FileName == "f1"

\* The id the service gives the uploaded archive
UploadedId == "U"

\* archive_upload: name
UploadName == IF args.name # "" THEN args.name ELSE FileName

\* def add_archive(self, vault_name, name, size, archive)
AddArchiveParams == <<"vault_name", "name", "size", "archive">>

\* self.cache.add_archive(self.args.vault, name, archive)
AddArchivePasses == <<"vault", "name", "archive">>

\* archive_upload up to its branch on the size of the file
ArchiveUpload ==
    /\ pc = "upload"
    /\ pc' = IF args.file < args.multipart_size
             THEN "up_single" ELSE "up_initiate"
    /\ UNCHANGED <<rows, now, log, stored, jobs, args, held, tries, cont, sel,
                   inv, ret, last_seen, outcome, exitcode, stdout, stderr,
                   sleeps, polls, did, multipart, dest, fpos, wrapped, data>>

\* vault.upload_archive(archiveDescription=name, body=file)
UploadSingle ==
    /\ pc = "up_single"
    /\ did' = Append(did, "upload_archive")
    /\ \E ok \in BOOLEAN :
          IF ok THEN pc' = "up_single_add" /\ UNCHANGED outcome
          ELSE Raises("ClientError")
    /\ UNCHANGED <<rows, now, log, stored, jobs, args, held, tries, cont, sel,
                   inv, ret, last_seen, exitcode, stdout, stderr, sleeps,
                   polls, multipart, dest, fpos, wrapped, data>>

\* self.cache.add_archive(self.args.vault, name, archive) after the single
\* upload: the call does not bind `archive`
UploadSingleAdd ==
    /\ pc = "up_single_add"
    /\ Len(AddArchivePasses) # Len(AddArchiveParams)
    /\ did' = Append(did, "add_archive")
    /\ Raises("TypeError")
    /\ UNCHANGED <<rows, now, log, stored, jobs, args, held, tries, cont, sel,
                   inv, ret, last_seen, exitcode, stdout, stderr, sleeps,
                   polls, multipart, dest, fpos, wrapped, data>>

\* The except clause of archive_upload takes exception e
UploadCatches(e) ==
    /\ multipart' = [multipart EXCEPT !.caught = e]
    /\ pc' = "up_except"
    /\ UNCHANGED outcome

\* vault.initiate_multipart_upload(archiveDescription=name,
\*                                 partSize=str(multipart_size))
UploadInitiate ==
    /\ pc = "up_initiate"
    /\ did' = Append(did, "initiate_multipart_upload")
    /\ \E ok \in BOOLEAN :
          IF ok
          THEN /\ multipart' = [multipart EXCEPT !.state = "open"]
               /\ pc' = IF UploadParts(args.file, args.multipart_size) = <<>>
                        THEN "up_complete" ELSE "up_part"
               /\ UNCHANGED outcome
          ELSE UploadCatches("ClientError")
    /\ UNCHANGED <<rows, now, log, stored, jobs, args, held, tries, cont, sel,
                   inv, ret, last_seen, exitcode, stdout, stderr, sleeps,
                   polls, dest, fpos, wrapped, data>>

\* _upload(start_byte, end_byte, chunk_num) for the next part
UploadPart ==
    /\ pc = "up_part"
    /\ did' = Append(did, "upload_part")
    /\ LET plan == UploadParts(args.file, args.multipart_size)
           n == Len(multipart.parts) + 1
       IN \E ok \in BOOLEAN :
             IF ok
             THEN /\ multipart' = [multipart EXCEPT
                         !.parts = Append(@, UploadRange(plan[n]))]
                  /\ pc' = IF n = Len(plan) THEN "up_complete" ELSE "up_part"
                  /\ UNCHANGED outcome
             ELSE UploadCatches("ClientError")
    /\ UNCHANGED <<rows, now, log, stored, jobs, args, held, tries, cont, sel,
                   inv, ret, last_seen, exitcode, stdout, stderr, sleeps,
                   polls, dest, fpos, wrapped, data>>

\* multipart.complete(archiveSize=str(file_size), checksum=file_tree_hash)
UploadComplete ==
    /\ pc = "up_complete"
    /\ did' = Append(did, "complete")
    /\ \E ok \in BOOLEAN :
          IF ok
          THEN /\ multipart' = [multipart EXCEPT
                      !.state = "completed",
                      !.archiveSize = args.file,
                      !.checksum = calculate_tree_hash(Content(args.file))]
               /\ pc' = "up_add"
               /\ UNCHANGED outcome
          ELSE UploadCatches("ClientError")
    /\ UNCHANGED <<rows, now, log, stored, jobs, args, held, tries, cont, sel,
                   inv, ret, last_seen, exitcode, stdout, stderr, sleeps,
                   polls, dest, fpos, wrapped, data>>

\* self.cache.add_archive(self.args.vault, name, archive) after complete:
\* the call does not bind `archive`, and the TypeError is caught
UploadAdd ==
    /\ pc = "up_add"
    /\ Len(AddArchivePasses) # Len(AddArchiveParams)
    /\ did' = Append(did, "add_archive")
    /\ UploadCatches("TypeError")
    /\ UNCHANGED <<rows, now, log, stored, jobs, args, held, tries, cont, sel,
                   inv, ret, last_seen, exitcode, stdout, stderr, sleeps,
                   polls, dest, fpos, wrapped, data>>

\* except Exception, e: the warning, multipart.abort() if there is a
\* multipart upload, and the end of archive_upload (the exception is not
\* raised again; one raised by abort() leaves archive_upload)
UploadExcept ==
    /\ pc = "up_except"
    /\ stderr' = Append(stderr,
                        [msg |-> "Unhandled exception during multi-part upload",
                         name |-> multipart.caught])
    /\ IF multipart.state = "none"
       THEN Returns /\ UNCHANGED <<multipart, did>>
       ELSE /\ did' = Append(did, "abort")
            /\ \E ok \in BOOLEAN :
                  IF ok
                  THEN /\ multipart' =
                            IF multipart.state = "open"
                            THEN [multipart EXCEPT !.state = "aborted"]
                            ELSE multipart
                       /\ Returns
                  ELSE Raises("ClientError") /\ UNCHANGED multipart
    /\ UNCHANGED <<rows, now, log, stored, jobs, args, held, tries, cont, sel,
                   inv, ret, last_seen, exitcode, stdout, sleeps, polls, dest, fpos,
                   wrapped, data>>

\* archive_retrieve: the position of the loop after a name that raised
\* RetryConsoleError; the except clause collects the message and the loop
\* goes on with the next name.
AfterRetry_stop(i, n) == n + 1

AfterRetry(i, n) == i + 1

\* archive_retrieve, after the loop: the RetryConsoleError that carries
\* success_list + retry_list, or the return
RetrieveEnds(r) ==
    IF r.retry_list # <<>> THEN Raises("RetryConsoleError") ELSE Returns

\* archive_retrieve: the loop goes on with position r.i, or has ended
RetrieveGoesOn(r) ==
    /\ ret' = r
    /\ IF r.i <= Len(args.names)
       THEN pc' = "rt_one" /\ outcome' = outcome
       ELSE RetrieveEnds(r)

\* archive_retrieve_one raised RetryConsoleError(msg) for the current name
RetrieveRetry(msg) ==
    RetrieveGoesOn([ret EXCEPT
        !.retry_list = Append(@, [msg |-> msg, name |-> args.names[ret.i]]),
        !.i = AfterRetry(ret.i, Len(args.names))])

\* archive_retrieve: the test of the arguments before the loop
RetrieveCheck ==
    /\ pc = "retrieve"
    /\ IF Len(args.names) > 1 /\ args.output_filename # ""
       THEN Raises("ConsoleError") /\ UNCHANGED ret
       ELSE /\ ret' = [i |-> 1, success_list |-> <<>>, retry_list |-> <<>>]
            /\ pc' = "rt_one"
            /\ UNCHANGED outcome
    /\ UNCHANGED <<rows, now, log, stored, jobs, args, held, tries, cont, sel,
                   inv, last_seen, exitcode, stdout, stderr, sleeps, polls,
                   did,
                   multipart, dest, fpos, wrapped, data>>

\* archive_retrieve_one up to its branch: the name is resolved, the jobs of
\* the archive are listed, and a completed one is downloaded, a pending one
\* is awaited or reported, or a new job is to be submitted.
RetrieveOne ==
    /\ pc = "rt_one"
    /\ LET res == get_archive_id(rows, Vault, NameRef(args.names[ret.i]))
           retrieval_jobs == Load(jobs, find_retrieval_jobs(jobs, res.value))
       IN CASE res.raised = "KeyError" ->
                 /\ Raises("ConsoleError")
                 /\ UNCHANGED <<held, sel, tries, cont, ret>>
            [] res.raised = "MultipleResultsFound" ->
                 /\ Raises(res.raised)
                 /\ UNCHANGED <<held, sel, tries, cont, ret>>
            [] OTHER ->
                 /\ held' = retrieval_jobs
                 /\ IF find_complete_job(retrieval_jobs) # {}
                    THEN /\ \E complete_job \in
                                  find_complete_job(retrieval_jobs) :
                               sel' = complete_job
                         /\ pc' = "rt_write"
                         /\ UNCHANGED <<outcome, tries, cont, ret>>
                    ELSE IF has_pending_job(retrieval_jobs)
                    THEN IF Wait
                         THEN /\ pc' = "wait"
                              /\ tries' = max_tries
                              /\ cont' = "rt_pending"
                              /\ UNCHANGED <<outcome, sel, ret>>
                         ELSE /\ RetrieveRetry("job still pending")
                              /\ UNCHANGED <<sel, tries, cont>>
                    ELSE /\ pc' = "rt_initiate"
                         /\ UNCHANGED <<outcome, sel, tries, cont, ret>>
    /\ UNCHANGED <<rows, now, log, stored, jobs, args, inv, last_seen,
                   exitcode, stdout, stderr, sleeps, polls, did,
                   multipart, dest, fpos, wrapped, data>>

\* archive_retrieve_one, no job listed: archive.initiate_archive_retrieval()
RetrieveInitiate ==
    /\ pc = "rt_initiate"
    /\ LET job == NewJobId(jobs)
           archive_id == get_archive_id(rows, Vault, NameRef(args.names[ret.i])).value
       IN /\ jobs' = [jobs EXCEPT
                         ![job] = Submitted("ArchiveRetrieval", archive_id)]
          /\ held' = Load(jobs', {job})
          /\ sel' = job
    /\ did' = Append(did, "initiate_archive_retrieval")
    /\ IF Wait
       THEN /\ pc' = "wait"
            /\ tries' = max_tries
            /\ cont' = "rt_queued"
            /\ UNCHANGED <<outcome, ret>>
       ELSE /\ RetrieveRetry("queued retrieval job")
            /\ UNCHANGED <<tries, cont>>
    /\ UNCHANGED <<rows, now, log, stored, args, inv, last_seen, exitcode,
                   stdout, stderr, sleeps, polls,
                   multipart, dest, fpos, wrapped, data>>

\* job.archive_size_in_bytes: archive A holds one byte, archive B a byte
\* more than MaxWhole - 1 chunks of the size `archive retrieve` fetches
archive_size_in_bytes(job) ==
    IF job.archive_id = "B"
    THEN (MaxWhole - 1) * RetrieveMultipartSize + 1 ELSE 1

\* job.sha256_tree_hash: the tree hash of the archive the service holds
sha256_tree_hash(job) ==
    calculate_tree_hash(Content(archive_size_in_bytes(job)))

\* _write_archive_retrieval_job: the bytes asked for, call by call; one
\* get_output() without a range gives the whole archive
Fetches(job, multipart_size) ==
    IF archive_size_in_bytes(job) > multipart_size
    THEN LET plan == FetchParts(archive_size_in_bytes(job), multipart_size)
         IN [n \in 1 .. Len(plan) |-> Named(FetchRange(plan[n]))]
    ELSE <<[start |-> 0, end |-> archive_size_in_bytes(job)]>>

RECURSIVE Length(_)
Length(ranges) ==
    IF ranges = <<>> THEN 0
    ELSE (ranges[1].end - ranges[1].start) + Length(Tail(ranges))

\* f.write(data) for each response in turn: the destination holds the
\* archive when the ranges follow one another from 0 and the bytes came
\* through as sent
Written(ranges, received_intact) ==
    [len |-> Length(ranges),
     intact |-> /\ received_intact
                /\ \A n \in DOMAIN ranges :
                      ranges[n].start = IF n = 1 THEN 0 ELSE ranges[n - 1].end]

\* f.truncate(size) that succeeds
Truncated(content, size) ==
    IF content.len = size THEN content ELSE [len |-> size, intact |-> FALSE]

\* f.truncate: the errno of the IOError, "" when there is none; standard
\* output may be a pipe
TruncateErrnos(output_filename) ==
    IF output_filename = "-" THEN {"", "ESPIPE"} ELSE {""}

\* except IOError as e: if e.errno != errno.ESPIPE: raise
Allowed(errno) == errno \in {"", "ESPIPE"}

HashVerified_unchecked(output_filename, content, job) == TRUE

\* _write_archive_retrieval_job: the tree hash of the file is compared with
\* the job's unless the output goes to standard output
HashVerified(output_filename, content, job) ==
    output_filename = "-" \/ calculate_tree_hash(content) = sha256_tree_hash(job)

\* warn("File saved to stdout cannot have it's SHA256 Tree Hash verified")
Unverified == [msg |-> "cannot have its SHA256 Tree Hash verified", name |-> ""]

\* _archive_retrieve_completed for the job settled on: the content is
\* fetched and written, the destination is truncated to the size of the
\* archive and the tree hash is verified; a job that failed has no output,
\* and the service answers the first get_output with an error
RetrieveWrite ==
    /\ pc = "rt_write"
    /\ LET job == jobs[sel]
           ranges == Fetches(job, args.multipart_size)
       IN IF job.status_code = "Failed"
          THEN /\ did' = Append(did, "get_output")
               /\ Raises("ClientError")
               /\ UNCHANGED <<ret, stderr, dest>>
          ELSE
          /\ did' = did \o [n \in DOMAIN ranges |-> "get_output"]
          /\ \E received_intact \in BOOLEAN,
                errno \in TruncateErrnos(args.output_filename) :
                LET f == IF errno = ""
                         THEN Truncated(Written(ranges, received_intact),
                                        archive_size_in_bytes(job))
                         ELSE Written(ranges, received_intact)
                IN /\ dest' = [written |-> IF args.output_filename = "-"
                                             THEN dest.written ELSE f,
                                 errno |-> errno]
                   /\ IF ~Allowed(errno)
                      THEN Raises("IOError") /\ UNCHANGED <<ret, stderr>>
                      ELSE IF ~HashVerified(args.output_filename, f, job)
                      THEN Raises("ConsoleError") /\ UNCHANGED <<ret, stderr>>
                      ELSE /\ stderr' = IF args.output_filename = "-"
                                        THEN Append(stderr, Unverified)
                                        ELSE stderr
                           /\ RetrieveGoesOn([ret EXCEPT
                                  !.success_list =
                                      Append(@, [msg |-> "retrieved archive",
                                                 name |-> args.names[ret.i]]),
                                  !.i = @ + 1])
    /\ UNCHANGED <<rows, now, log, stored, jobs, args, held, tries, cont, sel,
                   inv, last_seen, exitcode, stdout, sleeps, polls,
                   multipart, fpos, wrapped, data>>

\* The service completes a pending job while the run is under way.
JobCompletes ==
    /\ pc \notin {"main", "done"}
    /\ \E j \in JobIds :
          /\ jobs[j].action # "none"
          /\ ~jobs[j].completed
          /\ jobs[j].status_code = "InProgress"
          /\ jobs' = [jobs EXCEPT ![j].completed = TRUE,
                                  ![j].completion_date = now,
                                  ![j].status_code = "Succeeded"]
    /\ UNCHANGED <<rows, now, log, stored, args, pc, held, tries, cont, sel,
                   inv, ret, last_seen, outcome, exitcode, stdout, stderr,
                   sleeps, polls, did,
                   multipart, dest, fpos, wrapped, data>>

\* The service gives up a pending job while the run is under way: the job
\* gets the status code Failed, the one job_oneline prints as e.  What the
\* service then says in Completed is not the program's to decide: a job
\* that has ended is reported as completed, with a completion date, and the
\* model also follows a service that would not report it so.
JobFails ==
    /\ pc \notin {"main", "done"}
    /\ \E j \in JobIds, ended \in BOOLEAN :
          /\ jobs[j].status_code = "InProgress"
          /\ jobs' = [jobs EXCEPT ![j].completed = ended,
                                  ![j].completion_date =
                                      IF ended THEN now ELSE None,
                                  ![j].status_code = "Failed"]
    /\ UNCHANGED <<rows, now, log, stored, args, pc, held, tries, cont, sel,
                   inv, ret, last_seen, outcome, exitcode, stdout, stderr,
                   sleeps, polls, did,
                   multipart, dest, fpos, wrapped, data>>

\* The user interrupts the run: KeyboardInterrupt reaches App.main, and a
\* call of wait_until_job_completed under way ends with it.
Interrupt ==
    /\ pc \notin {"main", "done"}
    /\ Raises("KeyboardInterrupt")
    /\ tries' = 0 /\ sleeps' = 0 /\ polls' = 0
    /\ UNCHANGED <<rows, now, log, stored, jobs, args, held, cont, sel, inv,
                   ret, last_seen, exitcode, stdout, stderr, did,
                   multipart, dest, fpos, wrapped, data>>

\* App.main: the message of a caught exception, as printed to stderr; the
\* RetryConsoleError of archive_retrieve carries success_list + retry_list.
Message ==
    IF outcome = "RetryConsoleError" /\ args.func = "archive_retrieve"
    THEN ret.success_list \o ret.retry_list
    ELSE IF outcome \in {"RetryConsoleError", "ConsoleError", "RuntimeError"}
    THEN <<[msg |-> outcome, name |-> ""]>>
    ELSE <<>>

\* App.main: args.func() has ended; the message and the exit status
AppMain ==
    /\ pc = "main"
    /\ stderr' = stderr \o Message
    /\ exitcode' = main(outcome)
    /\ pc' = "done"
    /\ UNCHANGED <<rows, now, log, stored, jobs, args, held, tries, cont, sel,
                   inv, ret, last_seen, outcome, stdout, sleeps, polls, did,
                   multipart, dest, fpos, wrapped, data>>

-----------------------------------------------------------------------------
(* glacier/wrappedfile.py: class WrappedFile, over one shared file object *)

\* The file wrapped holds FileLen bytes; the byte at offset i is i, so that
\* a byte returned tells where it was read.
FileLen == 4

\* The WrappedFile objects that share the file, in the order they are made
Wrappers == {1, 2}

\* self.pos is followed from -MaxBack to FileLen.
MaxBack == 1

FileBytes(from, to) == [i \in 1 .. (to - from) |-> from + i - 1]

\* file.read(n) at position fp: up to n bytes, all that is left for n < 0;
\* the position moves past them
file_read(fp, n) ==
    LET left == IF fp < FileLen THEN FileLen - fp ELSE 0
        len == IF n < 0 \/ n > left THEN left ELSE n
    IN [data |-> FileBytes(fp, fp + len), fp |-> fp + len]

\* file.seek(pos): IOError (EINVAL) for a negative position
file_seek(fp, pos) ==
    IF pos < 0 THEN [raised |-> "IOError", fp |-> fp]
    ELSE [raised |-> "", fp |-> pos]

SEEK_SET == 0
SEEK_CUR == 1
SEEK_END == 2

\* WrappedFile.__init__(self, file, start, end)
WrappedFile(fp, start, end) ==
    IF end < start
    THEN [raised |-> "ValueError", self |-> [start |-> 0, end |-> 0, pos |-> 0],
          fp |-> fp]
    ELSE [raised |-> file_seek(fp, start).raised,
          self |-> [start |-> start, end |-> end, pos |-> start],
          fp |-> file_seek(fp, start).fp]

\* WrappedFile.read(self, size=None); size None is modelled by None (0),
\* which `not size` treats alike
read(self, fp, size) ==
    LET asked == IF size = None THEN self.end - self.pos ELSE size
        rlen == IF self.pos + asked > self.end
                THEN self.end - self.pos ELSE asked
        got == file_read(fp, rlen)
    IN IF asked = 0
       THEN [data |-> <<>>, self |-> self, fp |-> fp]
       ELSE [data |-> got.data,
             self |-> [self EXCEPT !.pos = @ + Len(got.data)],
             fp |-> got.fp]

\* A seek that takes os.SEEK_END from the end of the file wrapped instead
\* of the end of the window.
seek_fileend(self, fp, offset, whence) ==
    LET new_pos == CASE whence = SEEK_SET -> self.start + offset
                     [] whence = SEEK_CUR -> self.pos + offset
                     [] whence = SEEK_END -> FileLen + offset
                     [] OTHER -> 0
        sought == file_seek(fp, new_pos)
    IN IF whence \notin {SEEK_SET, SEEK_CUR, SEEK_END}
       THEN [raised |-> "ValueError", self |-> self, fp |-> fp]
       ELSE IF new_pos > self.end
       THEN [raised |-> "SeekPastEndError", self |-> self, fp |-> fp]
       ELSE [raised |-> sought.raised,
             self |-> IF sought.raised = ""
                      THEN [self EXCEPT !.pos = new_pos] ELSE self,
             fp |-> sought.fp]

\* WrappedFile.seek(self, offset, whence=os.SEEK_SET)
seek(self, fp, offset, whence) ==
    LET new_pos == CASE whence = SEEK_SET -> self.start + offset
                     [] whence = SEEK_CUR -> self.pos + offset
                     [] whence = SEEK_END -> self.end + offset
                     [] OTHER -> 0
        sought == file_seek(fp, new_pos)
    IN IF whence \notin {SEEK_SET, SEEK_CUR, SEEK_END}
       THEN [raised |-> "ValueError", self |-> self, fp |-> fp]
       ELSE IF new_pos > self.end
       THEN [raised |-> "SeekPastEndError", self |-> self, fp |-> fp]
       ELSE IF whence = SEEK_SET
       THEN [raised |-> sought.raised,
             self |-> IF sought.raised = ""
                      THEN [self EXCEPT !.pos = new_pos] ELSE self,
             fp |-> sought.fp]
       ELSE [raised |-> sought.raised,
             self |-> [self EXCEPT !.pos = new_pos],
             fp |-> sought.fp]

\* WrappedFile.tell(self)
tell(self) == self.pos - self.start

\* The windows wrapped: two bytes long, or empty at the end of the file, or
\* with the end before the start
Windows ==
    {[start |-> s, end |-> s + 2] : s \in 0 .. FileLen - 2}
      \cup {[start |-> FileLen, end |-> FileLen], [start |-> 2, end |-> 1]}

ReadSizes == {None, 1, 3, -1}

SeekOffsets == {-1, 0, 1, 3}

Whences == {SEEK_SET, SEEK_CUR, SEEK_END, 3}

\* What the calls on WrappedFile objects leave alone
NoApp ==
    UNCHANGED <<rows, now, log, stored, jobs, args, pc, held, tries, cont,
                sel, inv, ret, last_seen, outcome, exitcode, stdout, stderr,
                sleeps, polls, did, multipart, dest>>

\* w = WrappedFile(file, start, end), the next object over the file
WrappedNew ==
    /\ DOMAIN wrapped # Wrappers
    /\ \E win \in Windows :
          LET w == CHOOSE x \in Wrappers \ DOMAIN wrapped :
                      \A y \in Wrappers \ DOMAIN wrapped : x <= y
              new == WrappedFile(fpos, win.start, win.end)
          IN /\ wrapped' = IF new.raised = ""
                           THEN [x \in DOMAIN wrapped \cup {w} |->
                                    IF x = w THEN new.self ELSE wrapped[x]]
                           ELSE wrapped
             /\ fpos' = new.fp
             /\ data' = [by |-> w, op |-> "__init__", size |-> 0,
                         bytes |-> <<>>, raised |-> new.raised]
    /\ NoApp

\* w.read(size)
WrappedRead ==
    /\ \E w \in DOMAIN wrapped, size \in ReadSizes :
          LET r == read(wrapped[w], fpos, size)
          IN /\ r.self.pos <= FileLen
             /\ wrapped' = [wrapped EXCEPT ![w] = r.self]
             /\ fpos' = r.fp
             /\ data' = [by |-> w, op |-> "read", size |-> size,
                         bytes |-> r.data, raised |-> ""]
    /\ NoApp

\* w.seek(offset, whence)
WrappedSeek ==
    /\ \E w \in DOMAIN wrapped, offset \in SeekOffsets, whence \in Whences :
          LET r == seek(wrapped[w], fpos, offset, whence)
          IN /\ r.self.pos >= -MaxBack
             /\ wrapped' = [wrapped EXCEPT ![w] = r.self]
             /\ fpos' = r.fp
             /\ data' = [by |-> w, op |-> "seek", size |-> offset,
                         bytes |-> <<>>, raised |-> r.raised]
    /\ NoApp

\* w.tell()
WrappedTell ==
    /\ \E w \in DOMAIN wrapped :
          data' = [by |-> w, op |-> "tell", size |-> tell(wrapped[w]),
                   bytes |-> <<>>, raised |-> ""]
    /\ UNCHANGED <<wrapped, fpos>>
    /\ NoApp

\* The file object is open at some position and nothing wraps it yet.
InitWrapped ==
    /\ rows = {} /\ now = 1 /\ log = {} /\ stored = {}
    /\ jobs = [j \in JobIds |-> NoJob]
    /\ args = NoArgs /\ pc = "done" /\ held = NoHeld /\ tries = 0
    /\ cont = "" /\ sel = 0 /\ inv = NoInventory /\ ret = NoRetrieve
    /\ last_seen = None /\ outcome = "" /\ exitcode = -1
    /\ stdout = <<>> /\ stderr = <<>> /\ sleeps = 0 /\ polls = 0
    /\ did = <<>> /\ multipart = NoMultipart /\ dest = NoDest
    /\ fpos \in 0 .. FileLen
    /\ wrapped = NoWrapped
    /\ data = NoData

NextWrapped ==
    \/ WrappedNew
    \/ WrappedRead
    \/ WrappedSeek
    \/ WrappedTell

SpecWrapped == InitWrapped /\ [][NextWrapped]_vars

-----------------------------------------------------------------------------
(* glacier/models.py and glacier/cli.py: the archive list *)

\* In the listing a string is the sequence of its pieces: 'id:', 'name:'
\* and the tab are pieces of their own, and so is every other run of
\* characters.  The name of a record without one is None, the empty
\* sequence.
startswith(s, prefix) == Len(s) >= 1 /\ s[1] = prefix

\* "%s" % archive.name
Str(name) == IF name = <<>> THEN <<"None">> ELSE name

\* Cache._get_archive_query_by_ref: the filter a reference stands for
Filter(ref) ==
    IF startswith(ref, "id:") THEN [kind |-> "id", val |-> Tail(ref)]
    ELSE IF startswith(ref, "name:") THEN [kind |-> "name", val |-> Tail(ref)]
    ELSE [kind |-> "name", val |-> ref]

\* Cache._archive_ref(archive, force_id=False)
_archive_ref(archive, force_id) ==
    IF archive.name # <<>> /\ ~force_id
    THEN IF startswith(archive.name, "name:") \/ startswith(archive.name, "id:")
         THEN <<"name:">> \o archive.name
         ELSE archive.name
    ELSE <<"id:">> \o archive.id

\* get_archive_list.force_id(archive), and the lines of
\* get_archive_list_with_ids
force_id(archive) ==
    _archive_ref(archive, TRUE) \o <<"\t">> \o Str(archive.name)

\* The names models.py imports or defines at module level
ModelsGlobals ==
    {"os", "time", "logging", "sqlalchemy", "mkdir_p", "INVENTORY_LAG",
     "Cache"}

\* The names the records listed may have, as order_by(Archive.name) sorts
\* them: none, 'id:x', 'name:r', 'report'
ListNames == <<(<<>>), <<"id:", "x">>, <<"name:", "r">>, <<"report">>>>

Rank(name) == CHOOSE k \in DOMAIN ListNames : ListNames[k] = name

\* _get_archive_list_objects(vault): the live rows ordered by name; the
\* order of rows of one name is left to the database
ListObjects(rs, vault) ==
    LET live == {r \in rs : /\ r.key = self_key
                            /\ r.vault = vault
                            /\ r.deleted_here = None}
    IN {q \in [1 .. Cardinality(live) -> live] :
          /\ \A r \in live : \E i \in DOMAIN q : q[i] = r
          /\ \A i, j \in DOMAIN q :
                i < j => Rank(q[i].name) <= Rank(q[j].name)}

\* itertools.groupby over q by name: q[i] is in a group of two or more
Grouped(q, i) ==
    \/ i > 1 /\ q[i - 1].name = q[i].name
    \/ i < Len(q) /\ q[i + 1].name = q[i].name

\* Cache.get_archive_list(vault) over the rows q
get_archive_list(q) ==
    IF "itertools" \notin ModelsGlobals
    THEN [raised |-> "NameError", lines |-> <<>>]
    ELSE [raised |-> "",
          lines |-> [i \in DOMAIN q |->
                        IF Grouped(q, i) THEN force_id(q[i])
                        ELSE _archive_ref(q[i], FALSE)]]

\* Cache.get_archive_list_with_ids(vault) over the rows q
get_archive_list_with_ids(q) ==
    [raised |-> "", lines |-> [i \in DOMAIN q |-> force_id(q[i])]]

\* App.archive_list
ArchiveList ==
    /\ pc = "list"
    /\ \E q \in ListObjects(rows, Vault) :
          LET archive_list == IF args.force_ids
                              THEN get_archive_list_with_ids(q)
                              ELSE get_archive_list(q)
          IN IF archive_list.raised # ""
             THEN Raises(archive_list.raised) /\ UNCHANGED stdout
             ELSE Returns /\ stdout' = stdout \o archive_list.lines
    /\ UNCHANGED <<rows, now, log, stored, jobs, args, held, tries, cont, sel,
                   inv, ret, last_seen, exitcode, stderr, sleeps, polls, did,
                   multipart, dest, fpos, wrapped, data>>

\* The ids of the records listed, in their order
ListIds == <<(<<"A">>), <<"B">>, <<"C">>>>

\* The caches listed: up to three records, named or not, live or deleted
ListCaches ==
    UNION {{{[Archive(1, Vault, ListIds[k], name[k], 1, None)
                 EXCEPT !.deleted_here = deleted[k]] : k \in ks} :
              name \in [ks -> {ListNames[n] : n \in DOMAIN ListNames}],
              deleted \in [ks -> {None, 2}]} :
           ks \in SUBSET DOMAIN ListIds}

\* glacier archive list [--force-ids] vault
ListArgs ==
    {[NoArgs EXCEPT !.func = "archive_list", !.force_ids = f] :
        f \in BOOLEAN}

-----------------------------------------------------------------------------
(* glacier/cli.py: App.archive_delete *)

\* Cache.delete_archive: what the call raises.  The except clause formats
\* `name`, which delete_archive does not bind: with no live match the
\* KeyError is never built and NameError leaves the method
delete_archive_raises(rs, vault, ref) ==
    LET q == _get_archive_query_by_ref(rs, vault, ref)
    IN IF Cardinality(q) = 1 THEN ""
       ELSE IF q = {} THEN "NameError" ELSE "MultipleResultsFound"

\* archive_delete: cache.get_archive_id(vault, name); KeyError becomes the
\* ConsoleError 'archive ... not found'
ArchiveDelete ==
    /\ pc = "delete"
    /\ LET res == get_archive_id(rows, Vault, Filter(args.name))
       IN CASE res.raised = "KeyError" -> Raises("ConsoleError")
            [] res.raised = "" -> pc' = "del_remote" /\ UNCHANGED outcome
            [] OTHER -> Raises(res.raised)
    /\ UNCHANGED <<rows, now, log, stored, jobs, args, held, tries, cont, sel,
                   inv, ret, last_seen, exitcode, stdout, stderr, sleeps,
                   polls, did, multipart, dest, fpos, wrapped, data>>

\* archive_delete: vault.Archive(archive_id).delete()
DeleteRemote ==
    /\ pc = "del_remote"
    /\ did' = Append(did, "delete")
    /\ \E ok \in BOOLEAN :
          IF ok THEN pc' = "del_cache" /\ UNCHANGED outcome
          ELSE Raises("ClientError")
    /\ UNCHANGED <<rows, now, log, stored, jobs, args, held, tries, cont, sel,
                   inv, ret, last_seen, exitcode, stdout, stderr, sleeps,
                   polls, multipart, dest, fpos, wrapped, data>>

\* archive_delete: cache.delete_archive(vault, name); deleted_here is
\* time.time(), and the session is committed
DeleteTombstone ==
    /\ pc = "del_cache"
    /\ did' = Append(did, "delete_archive")
    /\ LET raised == delete_archive_raises(rows, Vault, Filter(args.name))
       IN IF raised = ""
          THEN \E t \in Times :
                  /\ t >= now
                  /\ now' = t
                  /\ rows' = delete_archive(rows, t, Vault, Filter(args.name))
                  /\ stored' = rows'
                  /\ Returns
          ELSE Raises(raised) /\ UNCHANGED <<rows, now, stored>>
    /\ UNCHANGED <<log, jobs, args, held, tries, cont, sel, inv, ret,
                   last_seen, exitcode, stdout, stderr, sleeps, polls,
                   multipart, dest, fpos, wrapped, data>>

\* glacier archive delete vault name: a bare name, an id, a name that looks
\* like an id, an id no record has and a name no record has
DeleteArgs ==
    {[NoArgs EXCEPT !.func = "archive_delete", !.name = ref] :
        ref \in {<<"report">>, <<"id:", "A">>, <<"name:", "id:", "x">>,
                 <<"id:", "x">>, <<"nx">>}}

-----------------------------------------------------------------------------
(* SpecShared: one Cache object over a table that several vaults and two   *)
(* access keys share.  The table's primary key is id: no two rows have     *)
(* one id, and the service gives an archive an id that no other has.       *)

\* The vaults the client names
Vaults == {"v1", "v2"}

\* The archives of the client's account, and the names they are given (ids
\* and names are written as in the archive list)
SharedNames == {<<"report">>, <<"name:", "r">>}

SharedIds == {<<"A">>, <<"B">>}

\* Rows that a session with another access key wrote, for a vault of the
\* name v1: a live row long seen upstream and a tombstoned one
OtherKeyRows ==
    {[Archive(1, "v1", <<"F">>, <<"report">>, 1, 1) EXCEPT !.key = "k2"],
     [Archive(1, "v1", <<"G">>, <<"name:", "r">>, 1, 1) EXCEPT !.key = "k2",
                                               !.deleted_here = 1]}

\* The references a client may give: the ids and the names there are
SharedRefs ==
    [kind : {"id"}, val : SharedIds \cup {<<"F">>, <<"G">>}]
        \cup [kind : {"name"}, val : SharedNames]

\* id is free for an archive of this vault: no row of another vault or key
\* has it
FreeFor(vault, id) ==
    \A r \in rows : r.id = id => r.key = self_key /\ r.vault = vault

InitShared ==
    /\ rows \in SUBSET OtherKeyRows
    /\ now = 1
    /\ log = {}
    /\ stored = {}
    /\ NoRun

\* add_archive(vault, name, size, archive) after an upload to the vault
SharedAddArchive ==
    \E vault \in Vaults, id \in SharedIds, name \in SharedNames :
        /\ \A r \in rows : r.id # id
        /\ rows' = add_archive(rows, now, vault, name, 1, id)
        /\ log' = {}
        /\ UNCHANGED <<now, stored, appVars>>

\* delete_archive(vault, ref)
SharedDeleteArchive ==
    \E vault \in Vaults,
       ref \in SharedRefs :
        /\ Cardinality(_get_archive_query_by_ref(rows, vault, ref)) = 1
        /\ rows' = delete_archive(rows, now, vault, ref)
        /\ log' = {}
        /\ UNCHANGED <<now, stored, appVars>>

\* mark_seen_upstream(vault, id, ...) for an archive the inventory of the
\* vault lists
SharedMarkSeenUpstream ==
    \E vault \in Vaults, id \in SharedIds, name \in SharedNames,
       upstream_inventory_date \in {1, 2}, fix \in BOOLEAN :
        /\ FreeFor(vault, id)
        /\ LET res == mark_seen_upstream(rows, now, vault, id, name, 1, 1,
                                         upstream_inventory_date, 1, fix)
           IN rows' = res.rows /\ log' = res.log
        /\ UNCHANGED <<now, stored, appVars>>

\* mark_only_seen(vault, inventory_date, ids, fix)
SharedMarkOnlySeen ==
    \E vault \in Vaults, inventory_date \in {1, 2}, ids \in SUBSET SharedIds,
       fix \in BOOLEAN :
        /\ LET res == mark_only_seen(rows, vault, inventory_date, ids, fix)
           IN rows' = res.rows /\ log' = res.log
        /\ UNCHANGED <<now, stored, appVars>>

NextShared ==
    \/ SharedAddArchive
    \/ SharedDeleteArchive
    \/ SharedMarkSeenUpstream
    \/ SharedMarkOnlySeen

SpecShared == InitShared /\ [][NextShared]_vars

----------------------------------------------------------------------------
(* The inputs of a run: command line, cache file and job table *)

\* --max-age: 0, a day, and INVENTORY_LAG in hours
MaxAges == {0, 24, INVENTORY_LAG \div (60 * 60)}

\* The cache row of archive A ("n1") when a run starts: never seen, seen
\* early or seen lately, live or deleted here.
CachedA ==
    {[Archive(1, Vault, "A", "n1", 1, seen) EXCEPT !.deleted_here = deleted] :
        seen \in {None, 1, INVENTORY_LAG + 1}, deleted \in {None, 2}}

CachedBoth == {Archive(1, Vault, "A", "n1", 1, 1), Archive(1, Vault, "B", "n2", 1, 1)}

Completed(action, archive_id, date) ==
    [action |-> action, archive_id |-> archive_id, completed |-> TRUE,
     completion_date |-> date, status_code |-> "Succeeded"]

\* The inventory jobs of the vault when a run starts
InventoryJobTables ==
    {[j \in JobIds |-> IF j = 1 THEN j1 ELSE IF j = 2 THEN j2 ELSE NoJob] :
        j1 \in {NoJob, Submitted("InventoryRetrieval", ""),
                Completed("InventoryRetrieval", "", 1),
                Completed("InventoryRetrieval", "", 2)},
        j2 \in {NoJob, Completed("InventoryRetrieval", "", INVENTORY_LAG + 1)}}

\* The retrieval jobs of the vault when a run starts: one for each of the
\* archives A and B, or two for A
RetrievalJobTables ==
    {[j \in JobIds |-> IF j = 1 THEN j1 ELSE IF j = 2 THEN j2 ELSE NoJob] :
        j1 \in {NoJob, Submitted("ArchiveRetrieval", "A"),
                Completed("ArchiveRetrieval", "A", 1)},
        j2 \in {NoJob, Submitted("ArchiveRetrieval", "B"),
                Completed("ArchiveRetrieval", "B", 1),
                Completed("ArchiveRetrieval", "A", 2)}}

\* glacier vault sync [--wait] [--fix] [--max-age N] name
SyncArgs ==
    {[NoArgs EXCEPT !.func = "vault_sync", !.wait = w, !.fix = f,
                    !.max_age_hours = m] :
        w \in BOOLEAN, f \in BOOLEAN, m \in MaxAges}

\* glacier archive checkpresent [--wait] [--quiet] [--max-age N] vault name
CheckpresentArgs ==
    {[NoArgs EXCEPT !.func = "archive_checkpresent", !.wait = w, !.quiet = q,
                    !.max_age_hours = m, !.name = "n1"] :
        w \in BOOLEAN, q \in BOOLEAN, m \in MaxAges}

NameLists ==
    UNION {[1 .. n -> {"n1", "n2", "nx"}] : n \in 1 .. MaxNames}

\* glacier archive retrieve [--wait] [-o output_filename] vault names...
RetrieveArgs ==
    {[NoArgs EXCEPT !.func = "archive_retrieve", !.wait = w, !.names = ns,
                    !.output_filename = o,
                    !.multipart_size = RetrieveMultipartSize] :
        w \in BOOLEAN, ns \in NameLists, o \in {"", "out", "-"}}

\* wait_until_job_completed(jobs, tries=n)
WaitArgs ==
    {[NoArgs EXCEPT !.func = "wait_until_job_completed", !.tries = n] :
        n \in (0 .. MaxTries) \cup {DefaultTries}}

\* The chunk sizes given with --multipart-size: one that is no power of two,
\* the least one allowed and the one `archive upload` takes when none is given
ChunkSizes == {3, MiB, UploadMultipartSize}

FileSizes(multipart_size) ==
    {k * multipart_size + d :
        k \in 0 .. MaxWhole,
        d \in {0, 1, multipart_size \div 8, multipart_size - 1}}

UploadArgs ==
    UNION {{[NoArgs EXCEPT !.func = "archive_upload", !.name = name,
                           !.multipart_size = c, !.file = s] :
               name \in {"", "n1"}, s \in FileSizes(c)} : c \in ChunkSizes}

Starts(a, cache, js) ==
    /\ args = a
    /\ rows = cache
    /\ stored = cache
    /\ jobs = js
    /\ now = INVENTORY_LAG + 1
    /\ log = {}
    /\ cont = ""
    /\ sel = 0
    /\ inv = NoInventory
    /\ ret = NoRetrieve
    /\ last_seen = None
    /\ outcome = ""
    /\ exitcode = -1
    /\ stdout = <<>>
    /\ stderr = <<>>
    /\ sleeps = 0
    /\ polls = 0
    /\ did = <<>>
    /\ multipart = NoMultipart
    /\ dest = NoDest
    /\ fpos = 0
    /\ wrapped = NoWrapped
    /\ data = NoData

\* App.main is entered with the parsed command line.
InitApp ==
    /\ \/ \E a \in SyncArgs, cache \in {{}} \cup {{r} : r \in CachedA},
             js \in InventoryJobTables :
               Starts(a, cache, js) /\ pc = "sync"
       \/ \E a \in CheckpresentArgs, cache \in {{}} \cup {{r} : r \in CachedA},
             js \in InventoryJobTables :
               Starts(a, cache, js) /\ pc = "checkpresent"
       \/ \E a \in RetrieveArgs, js \in RetrievalJobTables :
               Starts(a, CachedBoth, js) /\ pc = "retrieve"
       \/ \E a \in UploadArgs, cache \in {{}} \cup {{r} : r \in CachedA} :
               Starts(a, cache, [j \in JobIds |-> NoJob]) /\ pc = "upload"
       \/ \E a \in ListArgs, cache \in ListCaches :
               Starts(a, cache, [j \in JobIds |-> NoJob]) /\ pc = "list"
       \/ \E a \in DeleteArgs, cache \in ListCaches :
               Starts(a, cache, [j \in JobIds |-> NoJob]) /\ pc = "delete"
    /\ held = NoHeld
    /\ tries = 0

NextApp ==
    \/ VaultSyncFind
    \/ VaultSyncInitiate
    \/ WaitPoll
    \/ WaitSleep
    \/ ReconcileOutput
    \/ ReconcileSightings
    \/ ReconcileOnlySeen
    \/ ReconcileCommit
    \/ CheckpresentLookup
    \/ CheckpresentTooOld
    \/ CheckpresentReread
    \/ CheckpresentFinal
    \/ RetrieveCheck
    \/ RetrieveOne
    \/ RetrieveInitiate
    \/ RetrieveWrite
    \/ ArchiveUpload
    \/ UploadSingle
    \/ UploadSingleAdd
    \/ UploadInitiate
    \/ UploadPart
    \/ UploadComplete
    \/ UploadAdd
    \/ UploadExcept
    \/ ArchiveList
    \/ ArchiveDelete
    \/ DeleteRemote
    \/ DeleteTombstone
    \/ JobCompletes
    \/ Interrupt
    \/ AppMain

SpecApp == InitApp /\ [][NextApp]_vars

\* wait_until_job_completed is called with a list of jobs and a number of
\* tries.
InitWait ==
    /\ \E a \in WaitArgs, js \in InventoryJobTables :
          /\ Starts(a, {}, js)
          /\ held = Load(js, {j \in JobIds : js[j].action # "none"})
          /\ tries = a.tries
    /\ pc = "wait"

NextWait ==
    \/ WaitPoll
    \/ WaitSleep
    \/ JobCompletes
    \/ Interrupt
    \/ AppMain

\* The process is scheduled and time.sleep returns.
SpecWait ==
    /\ InitWait
    /\ [][NextWait]_vars
    /\ WF_vars(WaitPoll)
    /\ WF_vars(WaitSleep)
    /\ WF_vars(AppMain)

\* SpecFail: the runs of SpecApp with a service whose jobs may fail.
NextFail ==
    \/ NextApp
    \/ JobFails

SpecFail == InitApp /\ [][NextFail]_vars

-----------------------------------------------------------------------------
(* SpecRetry: `glacier archive retrieve` without --wait, run again by its  *)
(* caller (a scheduled task, say) for as long as it ends with the status   *)
(* of RetryConsoleError.  The job table is the service's and the           *)
(* destination is a file: both outlast a run.                              *)

\* glacier archive retrieve [-o output_filename] vault names..., the names
\* those of archives in the cache
RetryArgs ==
    {a \in RetrieveArgs :
        /\ ~a.wait
        /\ \A n \in DOMAIN a.names : a.names[n] \in {"n1", "n2"}
        /\ Len(a.names) > 1 => a.output_filename = ""}

\* The archive ids that the names of the command line resolve to
Named_ids(a) ==
    {get_archive_id(CachedBoth, Vault, NameRef(a.names[n])).value :
        n \in DOMAIN a.names}

\* The first run finds no job for the archives it names.
InitRetry ==
    /\ \E a \in RetryArgs, js \in RetrievalJobTables :
          /\ \A j \in JobIds : js[j].archive_id \notin Named_ids(a)
          /\ Starts(a, CachedBoth, js)
    /\ pc = "retrieve"
    /\ held = NoHeld
    /\ tries = 0

\* The run ended with EX_TEMPFAIL and the caller starts the next one with
\* the same command line: a new process, with what the service and the
\* disk hold.
Reinvoke ==
    /\ pc = "done"
    /\ exitcode = main("RetryConsoleError")
    /\ pc' = "retrieve"
    /\ held' = NoHeld
    /\ sel' = 0
    /\ ret' = NoRetrieve
    /\ outcome' = ""
    /\ exitcode' = -1
    /\ stderr' = <<>>
    /\ did' = <<>>
    /\ UNCHANGED <<rows, now, log, stored, jobs, args, tries, cont, inv,
                   last_seen, stdout, sleeps, polls, multipart, dest, fpos,
                   wrapped, data>>

NextRetry ==
    \/ RetrieveCheck
    \/ RetrieveOne
    \/ RetrieveInitiate
    \/ RetrieveWrite
    \/ AppMain
    \/ JobCompletes
    \/ Reinvoke

\* A run that has started is scheduled to its end, the caller starts the
\* next run after one that ended with EX_TEMPFAIL, and the service
\* completes every job submitted: a job pending is completed during one of
\* the runs that find it.
SpecRetry ==
    /\ InitRetry
    /\ [][NextRetry]_vars
    /\ WF_vars(RetrieveCheck)
    /\ WF_vars(RetrieveOne)
    /\ WF_vars(RetrieveInitiate)
    /\ WF_vars(RetrieveWrite)
    /\ WF_vars(AppMain)
    /\ WF_vars(Reinvoke)
    /\ SF_vars(JobCompletes)

----------------------------------------------------------------------------
(* Claims about the cache, checked under SpecCache *)

\* C1: no call leaves an archive record's last_seen_upstream lower than the
\* value it held before the call, whatever inventories are merged in
\* whatever order.
C1_LastSeenNeverDecreases ==
    [][\A r \in rows : \A r2 \in rows' :
          r.id = r2.id => r2.last_seen_upstream >= r.last_seen_upstream]_vars

\* An inventory snapshot as a client merges it: every entry of the archive
\* list through mark_seen_upstream, in order, then mark_only_seen with the
\* ids met.  t is the clock during the merge.
RECURSIVE MergeSightings(_, _, _, _, _, _)
MergeSightings(rs, t, list, inventory_date, job_creation_date, fix) ==
    IF list = <<>> THEN rs
    ELSE MergeSightings(
             mark_seen_upstream(rs, t, Vault, Head(list).id, Head(list).name,
                                Head(list).size, Head(list).creation_date,
                                inventory_date, job_creation_date, fix).rows,
             t, Tail(list), inventory_date, job_creation_date, fix)

MergeSnapshot(rs, t, list, inventory_date, job_creation_date, fix) ==
    mark_only_seen(
        MergeSightings(rs, t, list, inventory_date, job_creation_date, fix), Vault,
        inventory_date, {list[i].id : i \in 1 .. Len(list)}, fix).rows

Entries == [id : Ids, name : Names, size : Sizes, creation_date : {1}]

\* The archive lists of an inventory: an inventory lists an archive once.
ArchiveLists ==
    {list \in UNION {[1 .. n -> Entries] : n \in 0 .. Cardinality(Ids)} :
        \A i \in 1 .. Len(list) : \A j \in 1 .. Len(list) :
            list[i].id = list[j].id => i = j}

\* C2: merging the same inventory snapshot twice in a row leaves the cache
\* as merging it once does, for every snapshot and both values of fix; no
\* id gets a second row.
C2_MergeIdempotent ==
    \A list \in ArchiveLists, inventory_date \in Times,
       job_creation_date \in Times, fix \in BOOLEAN :
      \A t \in {u \in Times : u >= now} :
        LET once == MergeSnapshot(rows, t, list, inventory_date,
                                  job_creation_date, fix)
            twice == MergeSnapshot(once, t, list, inventory_date,
                                   job_creation_date, fix)
        IN /\ twice = once
           /\ \A r \in once : \A r2 \in once : r.id = r2.id => r = r2

\* C2 witness: a row that the last merge step created or updated for an
\* inventory (its last_seen_upstream is set) while a discrepancy was logged.
C2_Witness ==
    /\ \E r \in rows : r.last_seen_upstream # None /\ r.name = "n1"
    /\ [ev |-> "name changed", id |-> "A"] \in log

\* C3: in mark_only_seen a live row missing from the inventory, never seen
\* upstream, is flagged disappeared exactly when created_here <
\* inventory_date - INVENTORY_LAG; a live missing row that was seen upstream
\* is always flagged; a flagged row is removed exactly when fix is set, and
\* every other live row is left as it is.
C3_Disappearance ==
    \A inventory_date \in Times, ids \in SUBSET Ids, fix \in BOOLEAN :
      LET res == mark_only_seen(rows, Vault, inventory_date, ids, fix)
          Flagged(r) ==
              \E e \in res.log :
                  /\ e.id = r.id
                  /\ e.ev \in {"archive disappeared",
                               "archive disappeared (removed from cache)"}
      IN \A r \in rows :
           r.deleted_here = None =>
             /\ (r.id \notin ids /\ r.last_seen_upstream = None
                   => (Flagged(r)
                         <=> r.created_here < inventory_date - INVENTORY_LAG))
             /\ (r.id \notin ids /\ r.last_seen_upstream # None => Flagged(r))
             /\ (r.id \in ids => ~Flagged(r))
             /\ (r \notin res.rows <=> Flagged(r) /\ fix)

\* C3 witness: mark_only_seen has flagged, and under fix=False kept, a row
\* that was never seen upstream.
C3_Witness ==
    \E r \in rows :
        /\ r.deleted_here = None
        /\ r.last_seen_upstream = None
        /\ [ev |-> "archive disappeared", id |-> r.id] \in log

\* C4: a tombstoned row leaves the cache only through mark_only_seen, and
\* then exactly when its id is missing from the inventory's ids and
\* deleted_here < inventory_date; otherwise it stays, and stays tombstoned
\* with the same deleted_here, whatever is called.
C4_TombstoneRetained ==
    /\ [](\A inventory_date \in Times, ids \in SUBSET Ids, fix \in BOOLEAN :
            \A r \in rows :
              r.deleted_here # None =>
                (r \notin mark_only_seen(rows, Vault, inventory_date, ids, fix).rows
                   <=> r.id \notin ids /\ r.deleted_here < inventory_date))
    /\ [][\A r \in rows :
            r.deleted_here # None =>
              \/ \E r2 \in rows' :
                     r2.id = r.id /\ r2.deleted_here = r.deleted_here
              \/ /\ ById(rows', Vault, r.id) = {}
                 /\ \E inventory_date \in Times, ids \in SUBSET Ids,
                       fix \in BOOLEAN :
                      /\ r.id \notin ids
                      /\ r.deleted_here < inventory_date
                      /\ rows' = mark_only_seen(rows, Vault, inventory_date,
                                                ids, fix).rows
                      /\ log' = mark_only_seen(rows, Vault, inventory_date,
                                               ids, fix).log]_vars

\* C4 witness: mark_only_seen has just purged a tombstoned row.
C4_Witness ==
    /\ [ev |-> "deleted archive has left inventory", id |-> "A"] \in log
    /\ ById(rows, Vault, "A") = {}

----------------------------------------------------------------------------
(* Claims about the command line program, checked under SpecApp and        *)
(* SpecWait                                                                *)

\* The number of calls of op that the run has made.
Calls(op) == Cardinality({i \in DOMAIN did : did[i] = op})

\* The run has fetched an inventory, gone through mark_only_seen and
\* committed, in this order.
Merged ==
    \E i, j, k \in DOMAIN did :
        /\ i < j /\ j < k
        /\ did[i] = "get_output"
        /\ did[j] = "mark_only_seen"
        /\ did[k] = "mark_commit"

\* C5: whenever a sync invocation ends successfully (no retryable signal,
\* no timeout), the inventory of a completed inventory job has been merged
\* into the cache (sightings, then finalize) and committed, in each of the
\* three branches of the coordinator.
C5_SyncMerges ==
    (args.func = "vault_sync" /\ pc = "done" /\ outcome = "return")
        => (Merged /\ stored = rows)

\* C6: the mutations of one inventory merge become durable together: the
\* database content changes at the commit only, the commit comes once per
\* merge and after mark_only_seen, and a run that is interrupted or fails at
\* any point before the commit leaves the database content as it was before
\* the merge began.
C6_CommitAtomic ==
    /\ [](/\ Calls("mark_commit") <= 1
          /\ Calls("mark_commit") <= Calls("mark_only_seen")
          /\ Calls("mark_only_seen") <= Calls("get_output")
          /\ (Calls("mark_commit") = 1 => Merged)
          /\ (Calls("mark_commit") = 0 /\ pc \in {"main", "done"}
                  /\ args.func \in {"vault_sync", "archive_checkpresent"}
                => \/ outcome # "return"
                   \/ Calls("get_output") = 0))
    /\ [][(stored' # stored
              /\ args.func \in {"vault_sync", "archive_checkpresent"}) =>
                /\ pc = "rec_commit"
                /\ did' = Append(did, "mark_commit")
                /\ did[Len(did)] = "mark_only_seen"
                /\ stored' = rows]_vars

\* A merge has changed the session, the run was interrupted before the
\* commit, and the database holds what it held before.
C6_Witness ==
    /\ pc = "done"
    /\ outcome = "KeyboardInterrupt"
    /\ did = <<"get_output", "mark_only_seen">>
    /\ rows # stored
    /\ stored # {}

NonBlocking ==
    args.func \in {"vault_sync", "archive_retrieve"} /\ ~args.wait

Resolves(name) == get_archive_id(rows, Vault, NameRef(name)).raised = ""

\* The coordinator was called once in this run and has ended, not by an
\* interrupt: held is the list of jobs it found (or the job it submitted).
OneCallEnded ==
    /\ pc \in {"main", "done"}
    /\ outcome # "KeyboardInterrupt"
    /\ \/ args.func = "vault_sync"
       \/ /\ args.func = "archive_retrieve"
          /\ Len(args.names) = 1
          /\ Resolves(args.names[1])

\* The run, not the service, has taken the step.
RunMoves == pc' # pc \/ ret' # ret

\* C7: with wait=false, sync and retrieve never sleep and never enter the
\* poll loop; a call of the coordinator (for sync, or for a name of
\* retrieve that the cache resolves) that finds no completed matching job
\* ends with the retryable signal, job pending or job just queued after
\* submitting one, never with a hard failure and never with success.
C7_NonBlocking ==
    /\ [](NonBlocking =>
            /\ pc \notin {"wait", "sleep"}
            /\ sleeps = 0 /\ polls = 0 /\ tries = 0)
    /\ [](NonBlocking /\ OneCallEnded /\ find_complete_job(held) = {}
            => outcome = "RetryConsoleError")
    /\ [][NonBlocking /\ RunMoves /\ outcome' # "KeyboardInterrupt" =>
            /\ (pc = "sync" /\ find_complete_job(held') = {} =>
                    \/ pc' = "sync_initiate"
                    \/ has_pending_job(held') /\ outcome' = "RetryConsoleError")
            /\ (pc = "sync_initiate" =>
                    /\ outcome' = "RetryConsoleError"
                    /\ did' = Append(did, "initiate_inventory_retrieval"))
            /\ (pc = "rt_one" /\ Resolves(args.names[ret.i])
                    /\ find_complete_job(held') = {} =>
                    \/ pc' = "rt_initiate"
                    \/ /\ has_pending_job(held')
                       /\ ret'.retry_list =
                             Append(ret.retry_list,
                                    [msg |-> "job still pending",
                                     name |-> args.names[ret.i]]))
            /\ (pc = "rt_initiate" =>
                    /\ did' = Append(did, "initiate_archive_retrieval")
                    /\ ret'.retry_list =
                          Append(ret.retry_list,
                                 [msg |-> "queued retrieval job",
                                  name |-> args.names[ret.i]]))]_vars

\* A retrieve without --wait has found one name's job pending and has
\* queued a job for the other, and has ended retryable.
C7_Witness ==
    /\ pc = "done"
    /\ args.func = "archive_retrieve"
    /\ ~args.wait
    /\ sleeps = 0
    /\ outcome = "RetryConsoleError"
    /\ Len(ret.retry_list) = 2
    /\ ret.retry_list[1].msg = "job still pending"
    /\ ret.retry_list[2].msg = "queued retrieval job"

\* C8: the blocking wait always ends.  With N tries it polls the job list
\* again after each sleep, returns a completed job at the first poll that
\* finds one, and fails with the timeout error once the N tries are used
\* up; it sleeps at most N times and never after a poll that found a
\* completed job.
C8_WaitTerminates ==
    /\ [](pc \in {"wait", "sleep"} =>
            /\ sleeps <= max_tries
            /\ polls = sleeps + (IF pc = "sleep" THEN 1 ELSE 0)
            /\ tries = max_tries - polls
            /\ tries >= 0
            /\ (pc = "sleep" => find_complete_job(held) = {}))
    /\ [][pc = "wait" /\ RunMoves /\ outcome' # "KeyboardInterrupt" =>
            /\ held' = Load(jobs, DOMAIN held)
            /\ IF find_complete_job(held') # {}
               THEN /\ outcome' = "return"
                    /\ sel' \in find_complete_job(held')
                    /\ jobs[sel'].completed
               ELSE IF sleeps = max_tries
               THEN outcome' = "RuntimeError"
               ELSE pc' = "sleep" /\ outcome' = ""]_vars
    /\ [][pc = "sleep" /\ RunMoves /\ outcome' # "KeyboardInterrupt" =>
            pc' = "wait" /\ sleeps' = sleeps + 1 /\ polls' = polls]_vars
    /\ <>(pc = "done")

\* The wait with the default number of tries has slept that many times and
\* polls for the last time.
C8_Witness ==
    /\ args.func = "wait_until_job_completed"
    /\ args.tries = DefaultTries
    /\ pc = "wait"
    /\ sleeps = DefaultTries
    /\ polls = DefaultTries
    /\ tries = 0

AllResolve == \A i \in DOMAIN args.names : Resolves(args.names[i])

RetrieveEnded ==
    /\ args.func = "archive_retrieve"
    /\ pc = "done"
    /\ outcome # "KeyboardInterrupt"

\* Every name has its entry, the outcome is retryable exactly when a name
\* was retryable, and the retryable report is success_list + retry_list.
Aggregated ==
    /\ Len(ret.success_list) + Len(ret.retry_list) = Len(args.names)
    /\ \A i \in DOMAIN args.names :
          Cardinality({k \in DOMAIN args.names : args.names[k] = args.names[i]})
            = Cardinality({k \in DOMAIN ret.success_list :
                              ret.success_list[k].name = args.names[i]})
              + Cardinality({k \in DOMAIN ret.retry_list :
                                ret.retry_list[k].name = args.names[i]})
    /\ outcome = IF ret.retry_list # <<>> THEN "RetryConsoleError" ELSE "return"
    /\ SelectSeq(stderr, LAMBDA line : line # Unverified)
          = IF ret.retry_list # <<>>
            THEN ret.success_list \o ret.retry_list ELSE <<>>
    /\ exitcode = IF ret.retry_list # <<>> THEN 75 ELSE 0

\* C9 as stated: for a list of names that all resolve, every name is
\* processed in list order even when an earlier name ended retryable, the
\* outcome is retryable if and only if a name was retryable and success
\* otherwise, and the retryable report has an entry for every retrieved and
\* every retryable name.
C9_Aggregates == (RetrieveEnded /\ AllResolve) => Aggregated

\* The run ended with a hard failure: an output file given with more than
\* one name, a download that failed its tree hash, or a wait that timed out.
HardFailure == outcome \in {"ConsoleError", "RuntimeError"}

\* C9, amended: the aggregation holds when no name ends in a hard failure
\* and the arguments are accepted; a hard failure ends the loop at once,
\* the names after it are not processed and what was collected is not
\* reported.  The names are processed in list order, one entry each.
C9_AggregatesUnlessHardFailure ==
    /\ []((RetrieveEnded /\ AllResolve) =>
            IF HardFailure
            THEN /\ Len(ret.success_list) + Len(ret.retry_list) < Len(args.names)
                 /\ stderr = <<[msg |-> outcome, name |-> ""]>>
                 /\ exitcode = 1
            ELSE Aggregated)
    /\ [][args.func = "archive_retrieve" /\ ret.i >= 1 /\ ret' # ret =>
            /\ ret'.i = ret.i + 1
            /\ \/ /\ ret'.success_list =
                        Append(ret.success_list,
                               [msg |-> "retrieved archive",
                                name |-> args.names[ret.i]])
                  /\ ret'.retry_list = ret.retry_list
               \/ /\ \E m \in {"job still pending", "queued retrieval job"} :
                        ret'.retry_list =
                            Append(ret.retry_list,
                                   [msg |-> m, name |-> args.names[ret.i]])
                  /\ ret'.success_list = ret.success_list]_vars

\* The first of two names ended retryable, the second was retrieved all the
\* same, and the run ended retryable with both entries.
C9_Witness ==
    /\ RetrieveEnded
    /\ args.names = <<"n1", "n2">>
    /\ outcome = "RetryConsoleError"
    /\ ret.retry_list = <<[msg |-> "queued retrieval job", name |-> "n1"]>>
    /\ ret.success_list = <<[msg |-> "retrieved archive", name |-> "n2"]>>
    /\ Len(stderr) = 2

CheckpresentEnded ==
    /\ args.func = "archive_checkpresent"
    /\ pc = "done"
    /\ outcome # "KeyboardInterrupt"

\* A sighting of args.name no older than max_age_hours is in the cache.
RecentSighting ==
    LET res == get_archive_last_seen(rows, Vault, NameRef(args.name))
    IN /\ res.raised = ""
       /\ res.value # None
       /\ res.value >= now - args.max_age_hours * 60 * 60

NoDeleteOrUpload ==
    \A i \in DOMAIN did :
        did[i] \notin {"delete", "delete_archive", "upload_archive",
                       "initiate_multipart_upload", "add_archive"}

-----------------------------------------------------------------------------
(* The exit status *)

\* archive_upload met a failure: an exception left it or its except clause
\* took one
UploadFailed ==
    /\ args.func = "archive_upload"
    /\ (multipart.caught # "" \/ outcome # "return")

\* C11: when the program has ended, normal completion has exit status 0, a
\* user interrupt 130, a retryable condition 75 and every other failure 1; a
\* retryable condition never has status 1, and a failed upload never has
\* status 0 or 75.
C11_ExitCodes ==
    pc = "done" =>
        /\ outcome = "return" => exitcode = 0
        /\ outcome = "KeyboardInterrupt" => exitcode = 130
        /\ outcome = "RetryConsoleError" => exitcode = 75
        /\ outcome \notin {"return", "KeyboardInterrupt", "RetryConsoleError"}
              => exitcode = 1
        /\ exitcode = 1 => outcome # "RetryConsoleError"
        /\ UploadFailed /\ outcome # "KeyboardInterrupt"
              => exitcode \notin {0, 75}

-----------------------------------------------------------------------------
(* Upload *)

\* archive_upload has ended, uninterrupted, and the service completed the
\* multipart upload
UploadSucceeded ==
    /\ pc = "done"
    /\ args.func = "archive_upload"
    /\ multipart.state = "completed"
    /\ outcome # "KeyboardInterrupt"

\* The half-open range of part n of a file of size S in chunks of size C
PartOf(n, S, C) ==
    [start |-> (n - 1) * C, end |-> IF n * C < S THEN n * C ELSE S]

\* The live records of the session for the uploaded archive: size S, created
\* here, never seen upstream
Registered ==
    {r \in rows : /\ r.id = UploadedId
                  /\ r.name = UploadName
                  /\ r.size = args.file
                  /\ r.created_here # None
                  /\ r.last_seen_upstream = None
                  /\ r.deleted_here = None}

\* C12: after a successful multipart upload of a file of size S with chunk
\* size C, ceil(S/C) parts were sent in ascending order, each with its own
\* byte range, the upload was completed with size S and the tree hash of the
\* file, and the cache has gained exactly one live record for the archive,
\* with size S, created_here set and last_seen_upstream unset.
C12_UploadRegisters ==
    UploadSucceeded =>
        LET S == args.file
            C == args.multipart_size
        IN /\ Len(multipart.parts) = (S + C - 1) \div C
           /\ \A n \in 1 .. Len(multipart.parts) :
                 Named(multipart.parts[n]) = PartOf(n, S, C)
           /\ multipart.archiveSize = S
           /\ multipart.checksum = calculate_tree_hash(Content(S))
           /\ Cardinality(Registered) = 1
           /\ Cardinality({r \in stored : r.id = UploadedId}) = 1

\* A part upload or the completion call of the multipart upload failed
PartOrCompletionFailed ==
    /\ args.func = "archive_upload"
    /\ multipart.state # "none"
    /\ multipart.caught = "ClientError"

\* C13: when a part upload or the completion call has failed, the run ends
\* with the session aborted, with a status that is not success, and with no
\* record for the archive in the cache. (A run the user interrupts, and one
\* whose abort call fails in its turn, are left out.)
C13_AbortsAndPropagates ==
    (pc = "done" /\ PartOrCompletionFailed
        /\ outcome \notin {"KeyboardInterrupt", "ClientError"})
    => /\ multipart.state = "aborted"
       /\ Calls("abort") = 1
       /\ exitcode # 0
       /\ {r \in rows \cup stored : r.id = UploadedId} = {}

-----------------------------------------------------------------------------
(* Download *)

\* The step of _archive_retrieve_completed: the job output is fetched
Wrote == pc = "rt_write" /\ did' # did

Retrieved(name) == [msg |-> "retrieved archive", name |-> name]

\* C14: a download to a file counts the name as retrieved exactly when the
\* tree hash of the written destination equals the job's; on a mismatch
\* ConsoleError is raised, the name is not added to the successes, and the
\* run ends with status 1.  A download to standard output is not verified:
\* the warning is printed and the name counts as retrieved, also when
\* truncate fails with ESPIPE.
C14_DownloadIntegrity ==
    /\ [][(Wrote /\ args.output_filename # "-") =>
            IF calculate_tree_hash(dest'.written) = sha256_tree_hash(jobs[sel])
            THEN /\ ret'.success_list =
                        Append(ret.success_list, Retrieved(args.names[ret.i]))
                 /\ outcome' # "ConsoleError"
            ELSE /\ pc' = "main"
                 /\ outcome' = "ConsoleError"
                 /\ ret' = ret]_vars
    /\ [][(Wrote /\ args.output_filename = "-") =>
            /\ stderr' = Append(stderr, Unverified)
            /\ ret'.success_list =
                   Append(ret.success_list, Retrieved(args.names[ret.i]))
            /\ outcome' \notin {"ConsoleError", "IOError"}]_vars
    /\ []((pc = "done" /\ args.func = "archive_retrieve"
              /\ args.output_filename # "-" /\ ~dest.written.intact)
            => /\ exitcode = 1
               /\ outcome = "ConsoleError"
               /\ stderr = <<[msg |-> "ConsoleError", name |-> ""]>>)

\* The first name was retrieved; the download of the second, fetched in
\* ranges, came out corrupt: the run ended with status 1 and the second name
\* is not among the successes.
C14_Witness ==
    /\ pc = "done"
    /\ args.func = "archive_retrieve"
    /\ args.names = <<"n1", "n2">>
    /\ args.output_filename = ""
    /\ Calls("get_output") = 1 + MaxWhole
    /\ ~dest.written.intact
    /\ ret.success_list = <<Retrieved("n1")>>
    /\ exitcode = 1

-----------------------------------------------------------------------------
(* Chunk sizes and chunk plans *)

\* The calls that transfer content or open a transfer
TransferSteps ==
    {"upload_archive", "initiate_multipart_upload", "upload_part", "complete",
     "get_output"}

\* C15: when the chunk size given to upload or retrieve is not a power of
\* two from 2^20 to 2^32, the run makes no transfer step: no upload
\* request, no multipart upload is initiated, no job output is fetched.
C15_RejectsBadChunkSize ==
    (/\ args.func \in {"archive_upload", "archive_retrieve"}
     /\ validate_multipart_bytes(args.multipart_size) # "")
    => \A i \in DOMAIN did : did[i] \notin TransferSteps

\* The sizes planned for in the state: the file uploaded, or the archives
\* retrieved
PlannedSizes ==
    IF args.func = "archive_upload" THEN {args.file}
    ELSE {1, (MaxWhole - 1) * args.multipart_size + 1}

\* The ranges P, half-open, are in ascending order, pairwise disjoint, cover
\* exactly [0, S), and each has length C but the last, which may be shorter
\* and is not empty.
WellPlanned(P, S, C) ==
    /\ \A m, n \in DOMAIN P :
          m < n => P[m].start < P[n].start /\ P[m].end <= P[n].start
    /\ \A n \in DOMAIN P : 0 <= P[n].start /\ P[n].end <= S
    /\ Length(P) = S
    /\ \A n \in DOMAIN P :
          /\ P[n].end - P[n].start > 0
          /\ P[n].end - P[n].start <= C
          /\ n < Len(P) => P[n].end - P[n].start = C

\* C16: for a valid chunk size C and a size S, the ranges the upload names
\* part by part and the ranges the download asks for are the same, and they
\* are in ascending order, pairwise disjoint, with union [0, S), each of
\* length C except possibly a shorter, non-empty last one; the parts an
\* upload has sent are the first ranges of its plan.
C16_ChunkPlan ==
    (/\ args.func \in {"archive_upload", "archive_retrieve"}
     /\ validate_multipart_bytes(args.multipart_size) = "")
    => /\ \A S \in PlannedSizes :
             LET C == args.multipart_size
                 upload == UploadParts(S, C)
                 fetch == FetchParts(S, C)
                 up == [n \in DOMAIN upload |-> Named(UploadRange(upload[n]))]
                 down == [n \in DOMAIN fetch |-> Named(FetchRange(fetch[n]))]
             IN WellPlanned(up, S, C) /\ up = down
       /\ args.func = "archive_upload" =>
             LET upload == UploadParts(args.file, args.multipart_size)
             IN /\ Len(multipart.parts) <= Len(upload)
                /\ \A n \in DOMAIN multipart.parts :
                      Named(multipart.parts[n]) = upload[n]

\* 100 MiB were uploaded in chunks of 32 MiB: three whole parts and one of
\* 4 MiB.
C16_Witness ==
    /\ args.func = "archive_upload"
    /\ args.multipart_size = 32 * MiB
    /\ args.file = 100 * MiB
    /\ multipart.state = "completed"
    /\ Len(multipart.parts) = 4
    /\ Named(multipart.parts[4]) = [start |-> 96 * MiB, end |-> 100 * MiB]

-----------------------------------------------------------------------------
(* WrappedFile *)

\* The calls w.read(size) until the first that returns nothing: all the
\* bytes returned
RECURSIVE ReadToEnd(_, _, _)
ReadToEnd(self, fp, size) ==
    LET r == read(self, fp, size)
    IN IF r.data = <<>> THEN <<>>
       ELSE r.data \o ReadToEnd(r.self, r.fp, size)

\* C17: a read on a WrappedFile never returns a byte from outside its
\* window [start, end), whatever reads and seeks came before; and a
\* WrappedFile made over the file at any position and then read to the
\* first empty read gives end - start bytes, those of the window.
C17_ReadsStayInWindow ==
    /\ [][data'.op = "read" =>
            \A i \in DOMAIN data'.bytes :
                /\ wrapped[data'.by].start <= data'.bytes[i]
                /\ data'.bytes[i] < wrapped[data'.by].end]_vars
    /\ [](\A win \in Windows, size \in {None, 1, 3} :
            win.start <= win.end =>
               LET new == WrappedFile(fpos, win.start, win.end)
                   all == ReadToEnd(new.self, new.fp, size)
               IN /\ Len(all) = win.end - win.start
                  /\ all = FileBytes(win.start, win.end))

\* The bytes of the window of self that read(size) is to return at the
\* cursor of self
AtCursor(self, size) ==
    LET asked == IF size = None THEN self.end - self.pos ELSE size
        rlen == IF self.pos + asked > self.end
                THEN self.end - self.pos ELSE asked
    IN FileBytes(self.pos, self.pos + rlen)

\* C18: with several WrappedFile objects over one file, a read on one of
\* them, its cursor in its window and the size not negative, returns the
\* bytes of its window at its own cursor, whatever was called on the others
\* in between.
C18_IndependentCursors ==
    [][(/\ data'.op = "read"
        /\ data'.size >= 0
        /\ wrapped[data'.by].start <= wrapped[data'.by].pos
        /\ wrapped[data'.by].pos <= wrapped[data'.by].end)
       => data'.bytes = AtCursor(wrapped[data'.by], data'.size)]_vars

-----------------------------------------------------------------------------
(* The archive list *)

\* `glacier archive list` without --force-ids has ended, uninterrupted
Listed ==
    /\ pc = "done"
    /\ args.func = "archive_list"
    /\ ~args.force_ids
    /\ outcome # "KeyboardInterrupt"

Live == {r \in rows : r.deleted_here = None}

\* The live records that share the name of r, r included
Namesakes(r) == {x \in Live : x.name = r.name}

IdRank(id) == CHOOSE k \in DOMAIN ListIds : ListIds[k] = id

\* C19: the list has one line for every live record and none for a
\* tombstoned one, ordered by name and, within a name, by id; a record
\* whose name another live record shares is listed as id:<x><TAB><name>, a
\* record alone with its name by one line without the id.
C19_AmbiguousListing ==
    Listed =>
        /\ outcome = "return"
        /\ \E q \in ListObjects(rows, Vault) :
              /\ \A i, j \in DOMAIN q :
                    (i < j /\ q[i].name = q[j].name)
                       => IdRank(q[i].id) < IdRank(q[j].id)
              /\ Len(stdout) = Len(q)
              /\ \A i \in DOMAIN q :
                    IF Cardinality(Namesakes(q[i])) >= 2
                    THEN stdout[i] = <<"id:">> \o q[i].id \o <<"\t">>
                                       \o Str(q[i].name)
                    ELSE IF q[i].name # <<>>
                    THEN stdout[i] \in {q[i].name, <<"name:">> \o q[i].name}
                    ELSE stdout[i] = <<"id:">> \o q[i].id

\* C20: every live record alone with its name has a line in the list, and
\* that line, given to get_archive_id, gives the id of the record; so for a
\* name that begins with id: or name: and for a record without a name.
C20_ListingRoundTrips ==
    Listed =>
        \A r \in Live :
            Namesakes(r) = {r} =>
                \E i \in DOMAIN stdout :
                    /\ stdout[i] \in {r.name, <<"name:">> \o r.name,
                                      <<"id:">> \o r.id}
                    /\ get_archive_id(rows, Vault, Filter(stdout[i]))
                          = [raised |-> "", value |-> r.id]

-----------------------------------------------------------------------------
(* Claims about archive_delete, checked under SpecApp *)

Deleting == args.func = "archive_delete"

\* The rows tombstoned since the run began (a run starts at INVENTORY_LAG + 1)
TombstonedNow == {r \in rows : r.deleted_here >= INVENTORY_LAG + 1}

\* The record is in none of the lists of the cache
Unlisted(r) ==
    \A q \in ListObjects(rows, Vault) :
        /\ \A i \in DOMAIN q : q[i].id # r.id
        /\ \A i \in DOMAIN get_archive_list_with_ids(q).lines :
              get_archive_list_with_ids(q).lines[i] # force_id(r)
        /\ \A i \in DOMAIN get_archive_list(q).lines :
              get_archive_list(q).lines[i]
                  \notin {force_id(r), _archive_ref(r, FALSE)}

\* C21: archive_delete looks the reference up, then deletes the archive at
\* the service, then tombstones the row.  With no live row for the reference
\* it ends with the ConsoleError 'not found' before any remote call and with
\* no row changed; when the remote delete fails no row changes; after a
\* successful delete exactly the row the reference stood for has
\* deleted_here set, it is in the session and in the database file, the
\* lookups by the reference raise KeyError (a second delete ends 'not
\* found') and the lists do not have it.
C21_DeleteOrder ==
    /\ [](Deleting =>
            /\ did \in {<<>>, <<"delete">>, <<"delete", "delete_archive">>}
            /\ (pc = "done" /\ outcome = "ConsoleError"
                  => did = <<>> /\ exitcode = 1 /\ TombstonedNow = {})
            /\ (pc = "done" /\ outcome = "ClientError"
                  => did = <<"delete">> /\ TombstonedNow = {})
            /\ (pc = "done" /\ outcome = "return"
                  => /\ did = <<"delete", "delete_archive">>
                     /\ exitcode = 0
                     /\ Cardinality(TombstonedNow) = 1
                     /\ TombstonedNow \subseteq stored
                     /\ stored = rows
                     /\ get_archive_id(rows, Vault, Filter(args.name)).raised
                            = "KeyError"
                     /\ get_archive_last_seen(rows, Vault, Filter(args.name)).raised
                            = "KeyError"
                     /\ \A r \in TombstonedNow : Unlisted(r)))
    /\ [][Deleting =>
            /\ (pc = "delete"
                  /\ _get_archive_query_by_ref(rows, Vault, Filter(args.name)) = {}
                  /\ pc' # pc
                  => outcome' \in {"ConsoleError", "KeyboardInterrupt"})
            /\ (did' # did /\ did = <<>>
                  => Cardinality(_get_archive_query_by_ref(
                                     rows, Vault, Filter(args.name))) = 1)
            /\ (rows' # rows \/ stored' # stored
                  => /\ did = <<"delete">>
                     /\ pc = "del_cache"
                     /\ \E r \in _get_archive_query_by_ref(
                                     rows, Vault, Filter(args.name)) :
                           /\ r.deleted_here = None
                           /\ rows' = (rows \ {r})
                                 \cup {[r EXCEPT !.deleted_here = now']}
                           /\ stored' = rows')]_vars

\* C21 witness: a delete by name has ended with success and the row is
\* tombstoned in the database file, beside a live row.
C21_Witness ==
    /\ Deleting
    /\ pc = "done"
    /\ outcome = "return"
    /\ args.name = <<"report">>
    /\ \E r \in stored : r.deleted_here >= INVENTORY_LAG + 1
    /\ \E r \in stored : r.deleted_here = None

-----------------------------------------------------------------------------
(* Claims about the job coordinator, checked under SpecApp *)

\* The coordinator takes its decision in this step.
Selects ==
    /\ \/ pc = "sync"
       \/ pc = "rt_one" /\ Resolves(args.names[ret.i])
    /\ pc' # pc
    /\ outcome' # "KeyboardInterrupt"

\* The jobs that match the operation: the retrieval jobs of the archive the
\* name stands for, or the inventory jobs that are pending or were
\* completed less than max_age_hours ago
Matching ==
    IF pc \in {"sync", "sync_initiate"}
    THEN {j \in JobIds :
            /\ jobs[j].action = "InventoryRetrieval"
            /\ \/ ~jobs[j].completed
               \/ jobs[j].completion_date > now - args.max_age_hours * 60 * 60}
    ELSE {j \in JobIds :
            jobs[j].archive_id
                = get_archive_id(rows, Vault, NameRef(args.names[ret.i])).value}

\* The inventory jobs completed more than max_age_hours ago
Outdated ==
    {j \in JobIds :
        /\ jobs[j].action = "InventoryRetrieval"
        /\ jobs[j].completed
        /\ jobs[j].completion_date < now - args.max_age_hours * 60 * 60}

Newest(S) ==
    {j \in S : /\ jobs[j].completed
               /\ \A k \in S : jobs[k].completed =>
                     jobs[k].completion_date <= jobs[j].completion_date}

\* C22: the coordinator decides over the jobs that match the operation (for
\* a retrieval the jobs of the archive; for a sync the inventory jobs, the
\* pending ones and the ones completed within max_age_hours, never one
\* completed longer ago).  If one of them is completed it settles on a
\* completed one with the greatest completion date; otherwise, if one is
\* pending, it waits or reports the job pending (RetryConsoleError, which
\* archive_checkpresent takes as the end of its sync); otherwise it goes on
\* to submit one.  A pending job never comes before a completed one.
C22_SelectionPolicy ==
    [][Selects =>
        LET found == DOMAIN held'
        IN /\ Matching \subseteq found
           /\ found \cap Outdated = {}
           /\ \A j \in found :
                 IF pc = "sync" THEN jobs[j].action = "InventoryRetrieval"
                 ELSE j \in Matching
           /\ held' = [j \in found |-> jobs[j]]
           /\ IF \E j \in found : jobs[j].completed
              THEN /\ sel' \in Newest(found)
                   /\ pc' = IF pc = "sync" THEN "reconcile" ELSE "rt_write"
                   /\ did' = did
                   /\ outcome' = ""
              ELSE IF found # {}
              THEN /\ did' = did
                   /\ IF args.wait
                      THEN pc' = "wait" /\ outcome' = ""
                      ELSE IF args.func = "archive_checkpresent"
                      THEN pc' = "cp_final"
                      ELSE IF pc = "sync"
                      THEN outcome' = "RetryConsoleError"
                      ELSE ret'.retry_list =
                               Append(ret.retry_list,
                                      [msg |-> "job still pending",
                                       name |-> args.names[ret.i]])
              ELSE pc' = IF pc = "sync" THEN "sync_initiate"
                         ELSE "rt_initiate"]_vars

\* C22 witness: of two completed jobs that match, the coordinator has
\* settled on the one completed last, with a download under way
C22_Witness ==
    /\ pc = "rt_write"
    /\ sel = 2
    /\ DOMAIN held = {1, 2}
    /\ held[1].completed
    /\ held[1].completion_date < held[2].completion_date

\* A job is added to the job list of the vault.
Submits == \E j \in JobIds : jobs[j].action = "none" /\ jobs'[j].action # "none"

\* C23: a job is submitted only by a sync or a retrieve that has found no
\* matching job, completed or pending, and none matches when the job is
\* submitted; the step submits one job, the inventory job or the retrieval
\* job of the archive the name stands for.  A run submits at most one
\* inventory job, and at most one retrieval job for each name given.
C23_SubmitOrReuse ==
    /\ [][Submits =>
            /\ pc \in {"sync_initiate", "rt_initiate"}
            /\ Matching = {}
            /\ held = NoHeld
            /\ \E j \in JobIds :
                  /\ jobs' = [jobs EXCEPT ![j] =
                         IF pc = "sync_initiate"
                         THEN Submitted("InventoryRetrieval", "")
                         ELSE Submitted("ArchiveRetrieval",
                                        get_archive_id(rows, Vault,
                                            NameRef(args.names[ret.i])).value)]
                  /\ jobs[j].action = "none"
            /\ did' = Append(did, IF pc = "sync_initiate"
                                  THEN "initiate_inventory_retrieval"
                                  ELSE "initiate_archive_retrieval")]_vars
    /\ [][did' # did /\ did'[Len(did')] \in {"initiate_inventory_retrieval",
                                              "initiate_archive_retrieval"}
            => Submits]_vars
    /\ [](/\ Calls("initiate_inventory_retrieval") <= 1
          /\ Calls("initiate_archive_retrieval")
                <= Cardinality({args.names[i] : i \in DOMAIN args.names})
          /\ (args.func \notin {"vault_sync", "archive_checkpresent"}
                => Calls("initiate_inventory_retrieval") = 0)
          /\ (args.func # "archive_retrieve"
                => Calls("initiate_archive_retrieval") = 0))

\* C23 witness: a retrieve given the same name twice has submitted one job
\* for it and has found that job pending at the second turn
C23_Witness ==
    /\ args.func = "archive_retrieve"
    /\ pc = "done"
    /\ Len(args.names) = 2
    /\ args.names[1] = args.names[2]
    /\ Calls("initiate_archive_retrieval") = 1
    /\ Len(ret.retry_list) = 2
    /\ ret.retry_list[2].msg = "job still pending"

-----------------------------------------------------------------------------
(* Claims about the merge of an inventory, checked under SpecCache *)

\* An id that no row of the session has
FreshIds == {id \in Ids \cup {"Z"} : ById(rows, Vault, id) = {}}

\* C24: mark_seen_upstream for an id without a row adds exactly one row,
\* with the name and the size given and with last_seen_upstream =
\* max(upstream_inventory_date, upstream_inventory_job_creation_date -
\* INVENTORY_LAG), INVENTORY_LAG being 72 hours (259200 seconds); the rows
\* there were stay as they are, nothing is logged, and
\* upstream_creation_date has no part in the result.
C24_LagTolerantValue ==
    /\ [](/\ INVENTORY_LAG = 72 * 60 * 60
          /\ INVENTORY_LAG = 259200
          /\ \A id \in FreshIds, name \in Names, size \in Sizes,
                upstream_inventory_date \in Times,
                upstream_inventory_job_creation_date \in Times,
                fix \in BOOLEAN :
               LET t == now
                   res(upstream_creation_date) ==
                       mark_seen_upstream(
                           rows, t, Vault, id, name, size, upstream_creation_date,
                           upstream_inventory_date,
                           upstream_inventory_job_creation_date, fix)
                   new == res(1).rows \ rows
                   lag == upstream_inventory_job_creation_date - 259200
               IN /\ rows \subseteq res(1).rows
                  /\ Cardinality(new) = 1
                  /\ \A r \in new :
                        /\ r.id = id /\ r.name = name /\ r.size = size
                        /\ r.last_seen_upstream =
                              IF upstream_inventory_date >= lag
                              THEN upstream_inventory_date ELSE lag
                        /\ r.deleted_here = None
                        /\ r.created_here = t
                  /\ res(1).log = {}
                  /\ res(INVENTORY_LAG + 2) = res(1))
    /\ [][\A r \in rows' \ rows :
            ById(rows, Vault, r.id) = {} /\ r.last_seen_upstream # None =>
              /\ rows' = rows \cup {r}
              /\ \E upstream_inventory_date \in Times,
                    upstream_inventory_job_creation_date \in Times :
                   r.last_seen_upstream =
                       IF upstream_inventory_date >=
                              upstream_inventory_job_creation_date - 259200
                       THEN upstream_inventory_date
                       ELSE upstream_inventory_job_creation_date - 259200]_vars

\* C24 witness: the session's only row was created by mark_seen_upstream
\* just now, and its last_seen_upstream is a job creation date less the lag
\* (no inventory date of the model lies between the early and the late
\* clock values).
C24_Witness ==
    /\ \E r \in rows :
          /\ rows = {r}
          /\ r.last_seen_upstream = 2
          /\ r.created_here = INVENTORY_LAG + 2
          /\ r.created_here = now
          /\ r.name = "n2"
          /\ r.size = 1
    /\ log = {}

\* The warnings about archives gone from the inventory
Disappeared ==
    {"archive disappeared", "archive disappeared (removed from cache)"}

\* C25: a discrepancy never ends a merge, and only fix decides what it does
\* to the row.  When mark_seen_upstream meets a row of the id, an empty name
\* or size is taken from the inventory; a different name or size is kept
\* under fix=False and replaced by the inventory's under fix=True; a
\* tombstoned row stays tombstoned; last_seen_upstream is set in every
\* case, and the entry that follows in the list is merged as well.  In
\* mark_only_seen a row that has disappeared is kept under fix=False and
\* removed under fix=True, and the other missing rows are dealt with as
\* they are without it.
C25_DiscrepanciesNotFatal ==
    /\ \A archive \in rows, name \in Names, size \in Sizes \cup {2},
          upstream_inventory_date \in Times,
          upstream_inventory_job_creation_date \in Times, fix \in BOOLEAN :
         LET sighting == [id |-> archive.id, name |-> name, size |-> size,
                          creation_date |-> 1]
             next == [id |-> "Z", name |-> "n1", size |-> 1,
                      creation_date |-> 1]
             res == mark_seen_upstream(
                        rows, now, Vault, archive.id, name, size, 1,
                        upstream_inventory_date,
                        upstream_inventory_job_creation_date, fix)
             value == LastSeenValue(upstream_inventory_date,
                                    upstream_inventory_job_creation_date)
         IN /\ \E updated \in res.rows :
                  /\ res.rows = (rows \ {archive}) \cup {updated}
                  /\ updated.id = archive.id
                  /\ updated.name =
                        IF archive.name = "" THEN name
                        ELSE IF archive.name # name /\ fix THEN name
                        ELSE archive.name
                  /\ updated.size =
                        IF archive.size = None THEN size
                        ELSE IF archive.size # size /\ fix THEN size
                        ELSE archive.size
                  /\ updated.deleted_here = archive.deleted_here
                  /\ updated.created_here = archive.created_here
                  /\ updated.last_seen_upstream = value
            /\ MergeSightings(rows, now, <<sighting, next>>,
                              upstream_inventory_date,
                              upstream_inventory_job_creation_date, fix)
                  = res.rows \cup {Archive(now, Vault, "Z", "n1", 1, value)}
    /\ \A inventory_date \in Times, fix \in BOOLEAN :
         LET gone == Archive(1, Vault, "Z", "n1", 1, 1)
             res == mark_only_seen(rows \cup {gone}, Vault, inventory_date, {}, fix)
             without == mark_only_seen(rows, Vault, inventory_date, {}, fix)
         IN /\ gone \in res.rows <=> ~fix
            /\ \E e \in res.log : e.id = "Z" /\ e.ev \in Disappeared
            /\ res.rows \ {gone} = without.rows
            /\ {e \in res.log : e.id # "Z"} = without.log

\* C25 witness: mark_seen_upstream has met a tombstoned row under another
\* name with fix=True; the row has the inventory's name and is still
\* tombstoned.
C25_Witness ==
    /\ [ev |-> "name changed (fixed)", id |-> "A"] \in log
    /\ [ev |-> "marked deleted but still present", id |-> "A"] \in log
    /\ \E r \in rows : r.deleted_here # None /\ r.last_seen_upstream # None

-----------------------------------------------------------------------------
(* Claims about the shared table, checked under SpecShared *)

Namespace(r) == <<r.key, r.vault>>

\* C26: whatever is called, the table has at most one row for a key, a vault
\* and an id; mark_seen_upstream for an id that has a row in the vault, live
\* or tombstoned, puts the updated row in its place and adds none; and a step
\* that replaces a row keeps its id, its vault and its key.
C26_OneRowPerId ==
    /\ [](/\ \A r \in rows : \A r2 \in rows :
                Namespace(r) = Namespace(r2) /\ r.id = r2.id => r = r2
          /\ \A vault \in Vaults, id \in SharedIds, name \in SharedNames,
                upstream_inventory_date \in {1, 2}, fix \in BOOLEAN :
               LET res == mark_seen_upstream(rows, now, vault, id, name, 1, 1,
                                             upstream_inventory_date, 1, fix)
               IN ById(rows, vault, id) # {} =>
                     /\ Cardinality(res.rows) = Cardinality(rows)
                     /\ Cardinality(ById(res.rows, vault, id)) = 1
                     /\ rows \ ById(rows, vault, id)
                           = res.rows \ ById(res.rows, vault, id))
    /\ [][/\ Cardinality(rows' \ rows) <= 1
          /\ \A r \in rows \ rows' : \A r2 \in rows' \ rows :
                r2.id = r.id /\ Namespace(r2) = Namespace(r)]_vars

\* C26 witness: mark_seen_upstream has met the tombstoned row of its id (it
\* logs the row as not yet gone from the inventory) beside a row of the
\* other vault, and each id still has one row.
C26_Witness ==
    /\ \E e \in log : e.ev = "deletion not yet in inventory"
    /\ \E r \in rows :
          /\ r.key = self_key
          /\ r.deleted_here # None
          /\ r.last_seen_upstream # None
    /\ {r.vault : r \in {x \in rows : x.key = self_key}} = Vaults
    /\ Cardinality({r.id : r \in rows}) = Cardinality(rows)

\* The rows a call for the vault has nothing to do with
Elsewhere(rs, vault) == {r \in rs : r.key # self_key \/ r.vault # vault}

\* C27: a call for a vault leaves the rows of the other vaults and of the
\* other keys as they are (mark_only_seen removes none of them for an id the
\* inventory lacks), and what it looks up and lists are rows of its own key
\* and vault.
C27_NamespaceIsolation ==
    /\ [](\A vault \in Vaults :
            /\ \A id \in SharedIds \cup {<<"F">>, <<"G">>}, name \in SharedNames :
                  /\ Elsewhere(add_archive(rows, now, vault, name, 1, id),
                               vault) = Elsewhere(rows, vault)
                  /\ \A upstream_inventory_date \in {1, 2}, fix \in BOOLEAN :
                        Elsewhere(mark_seen_upstream(
                                      rows, now, vault, id, name, 1, 1,
                                      upstream_inventory_date, 1, fix).rows,
                                  vault) = Elsewhere(rows, vault)
            /\ \A inventory_date \in {1, 2}, ids \in SUBSET SharedIds,
                  fix \in BOOLEAN :
                  /\ Elsewhere(mark_only_seen(rows, vault, inventory_date,
                                              ids, fix).rows, vault)
                        = Elsewhere(rows, vault)
                  /\ \A e \in mark_only_seen(rows, vault, inventory_date,
                                             ids, fix).log :
                        ById(rows, vault, e.id) # {}
            /\ \A ref \in SharedRefs :
                  LET q == _get_archive_query_by_ref(rows, vault, ref)
                  IN /\ q \cap Elsewhere(rows, vault) = {}
                     /\ Cardinality(q) = 1 =>
                           /\ Elsewhere(delete_archive(rows, now, vault, ref),
                                        vault) = Elsewhere(rows, vault)
                           /\ get_archive_id(rows, vault, ref).value
                                 \in {r.id : r \in rows \ Elsewhere(rows, vault)}
                           /\ get_archive_last_seen(rows, vault, ref).value
                                 \in {Max(r.last_seen_upstream, r.created_here) :
                                        r \in rows \ Elsewhere(rows, vault)}
            /\ \A q \in ListObjects(rows, vault) :
                  /\ \A i \in DOMAIN q : q[i] \notin Elsewhere(rows, vault)
                  /\ \A i \in DOMAIN get_archive_list_with_ids(q).lines :
                        \E r \in rows \ Elsewhere(rows, vault) :
                           get_archive_list_with_ids(q).lines[i] = force_id(r))
    /\ [][\E vault \in Vaults :
            Elsewhere(rows', vault) = Elsewhere(rows, vault)]_vars

\* C27 witness: mark_only_seen for one vault has just removed its row that
\* had disappeared, while a row of the other vault and the rows of the other
\* key, which no inventory of this vault has ever listed either, are still
\* in the table.
C27_Witness ==
    /\ \E e \in log : e.ev = "archive disappeared (removed from cache)"
    /\ Cardinality({r \in rows : r.key = self_key}) = 1
    /\ \E r \in rows : r.key = self_key /\ r.last_seen_upstream # None
    /\ OtherKeyRows \subseteq rows

-----------------------------------------------------------------------------
(* Claims about WrappedFile, checked under SpecWrapped *)

\* The cursor of self is in its window
InWindow(self) == self.start <= self.pos /\ self.pos <= self.end

\* C28: a read(n) with n >= 0 (read(0) is the call with size 0, which the
\* code takes as it takes no size at all) on a WrappedFile whose cursor p is
\* in its window returns at most min(n, end - p) bytes, moves the cursor by
\* the number of bytes returned, and at p = end returns nothing and raises
\* nothing.
C28_ReadBound ==
    [][data'.op = "read" /\ data'.size >= 0 /\ InWindow(wrapped[data'.by]) =>
          LET self == wrapped[data'.by]
              n == data'.size
              bound == IF n < self.end - self.pos
                       THEN n ELSE self.end - self.pos
          IN /\ Len(data'.bytes) <= bound
             /\ wrapped'[data'.by].pos = self.pos + Len(data'.bytes)
             /\ self.pos = self.end =>
                   data'.bytes = <<>> /\ data'.raised = ""]_vars

\* The absolute position that seek(offset, whence) on self asks for
Target(self, offset, whence) ==
    CASE whence = SEEK_SET -> self.start + offset
      [] whence = SEEK_CUR -> self.pos + offset
      [] whence = SEEK_END -> self.end + offset

\* C29: a seek to an absolute position beyond the end of the window raises
\* SeekPastEndError and leaves the cursor and the position of the file as
\* they were; an offset from the start is taken from start and an offset
\* from the end from the end of the window; and after a seek that raises
\* nothing tell() is the absolute position less start, the position the
\* file is at.
C29_Seek ==
    /\ [](\A w \in DOMAIN wrapped, offset \in SeekOffsets,
            whence \in {SEEK_SET, SEEK_CUR, SEEK_END} :
            LET self == wrapped[w]
                r == seek(self, fpos, offset, whence)
                target == Target(self, offset, whence)
            IN /\ target > self.end =>
                     /\ r.raised = "SeekPastEndError"
                     /\ r.self = self
                     /\ r.fp = fpos
               /\ target <= self.end => r.raised # "SeekPastEndError"
               /\ r.raised = "" =>
                     /\ tell(r.self) = target - self.start
                     /\ r.fp = target)
    /\ [][data'.op = "seek" =>
            /\ data'.raised = "SeekPastEndError" => UNCHANGED <<wrapped, fpos>>
            /\ data'.raised = "" =>
                  tell(wrapped'[data'.by]) = fpos' - wrapped[data'.by].start]_vars

\* C29 witness: a seek has just raised SeekPastEndError on a WrappedFile
\* whose cursor an earlier seek had moved into its window, while the file
\* is where that object left it.
C29_Witness ==
    /\ data.op = "seek"
    /\ data.raised = "SeekPastEndError"
    /\ tell(wrapped[data.by]) = 1
    /\ fpos = wrapped[data.by].pos

-----------------------------------------------------------------------------
(* Claims about runs repeated by the caller, checked under SpecRetry *)

\* The jobs of the table for the archive that position n of the command
\* line names
JobsFor(n) ==
    find_retrieval_jobs(jobs, get_archive_id(rows, Vault,
                                             NameRef(args.names[n])).value)

\* The run ends because the tree hash of what was downloaded is not
\* the job's
Corrupt ==
    /\ pc \in {"main", "done"}
    /\ outcome = "ConsoleError"
    /\ ~HashVerified(args.output_filename, dest.written, jobs[sel])

\* The run has ended with status 0, every archive named written
Succeeded ==
    /\ pc = "done"
    /\ exitcode = 0
    /\ Len(ret.success_list) = Len(args.names)
    /\ \A n \in DOMAIN args.names :
          /\ ret.success_list[n].name = args.names[n]
          /\ \E j \in JobsFor(n) : jobs[j].completed
    /\ args.output_filename # "-" =>
          dest.written = Content(archive_size_in_bytes(jobs[sel]))

\* C30: `archive retrieve` without --wait for names of the cache, run again
\* after every run that ended with the status of RetryConsoleError, with
\* every job completed in time and listed from then on: a job is submitted
\* only for an archive that has none and the run that submits it ends
\* retryable; a run that ends while the job of one of its archives is
\* pending ends retryable, and no archive gets a second job; and in the end
\* a run writes the archives and ends with status 0, unless a download does
\* not match its tree hash.
C30_RetryLiveness ==
    /\ [][\A j \in JobIds :
            jobs[j].action = "none" /\ jobs'[j].action # "none" =>
               /\ find_retrieval_jobs(jobs, jobs'[j].archive_id) = {}
               /\ ret'.retry_list # <<>>]_vars
    /\ [](/\ \A j \in JobIds, k \in JobIds :
                /\ jobs[j].action # "none"
                /\ jobs[j].archive_id = jobs[k].archive_id
                /\ jobs[j].archive_id \in Named_ids(args)
                => j = k
          /\ pc \in {"main", "done"} /\ ret.retry_list # <<>> =>
                outcome = "RetryConsoleError" \/ Corrupt
          /\ pc = "done" =>
                /\ outcome = "RetryConsoleError" =>
                      exitcode = main("RetryConsoleError")
                /\ (\E n \in DOMAIN args.names, j \in JobIds :
                       j \in JobsFor(n) /\ ~jobs[j].completed)
                   => outcome = "RetryConsoleError" \/ Corrupt
                /\ Succeeded \/ Corrupt \/ outcome = "RetryConsoleError")
    /\ <>(Succeeded \/ Corrupt)

\* C30 witness: a run has ended with status 0 and the archive in the file
\* named, fetched from the job that an earlier run submitted (the first run
\* found none).
C30_Witness ==
    /\ Succeeded
    /\ args.output_filename = "out"
    /\ dest.written.intact
    /\ jobs[sel].completed
    /\ jobs[sel].archive_id \in Named_ids(args)

-----------------------------------------------------------------------------
(* Claims about jobs that fail, checked under SpecFail *)

\* C31: a job with the status code Failed is never taken for a completed
\* one: the job that _vault_sync, archive_retrieve_one or
\* wait_until_job_completed settles on has succeeded, get_output is not
\* called on a failed job for a download or an inventory, and
\* wait_until_job_completed returns a job only when one of its jobs has
\* succeeded.
C31_FailedNotCompleted ==
    /\ [](pc \in {"reconcile", "rt_write"} =>
             jobs[sel].status_code # "Failed")
    /\ [][/\ pc \in {"sync", "rt_one", "wait"} /\ pc' \in {"reconcile", "rt_write"}
             /\ sel' # sel
             => jobs[sel'].status_code = "Succeeded"
          /\ pc = "wait" /\ pc' \notin {"wait", "sleep"}
             /\ outcome' \notin {"RuntimeError", "KeyboardInterrupt"}
             => \E j \in DOMAIN held : jobs[j].status_code = "Succeeded"]_vars

-----------------------------------------------------------------------------
(* A claim about deleted archives, checked under SpecCache *)

\* The live rows of the vault with the id: what get_archive_id and the
\* archive lists go by
LiveRows(rs, id) == _get_archive_query_by_ref(rs, Vault, [kind |-> "id", val |-> id])

\* C32: an archive that delete_archive has tombstoned has no live row again:
\* no call makes the row of a tombstoned id a live one, and whatever two
\* inventories are merged next, the second one older than the deletion and
\* merged after the first one has removed the tombstone included, the id has
\* no live row after either.
C32_NoResurrection ==
    /\ [][\A r \in rows : r.deleted_here # None => LiveRows(rows', r.id) = {}]_vars
    /\ [](\A r \in rows :
            r.deleted_here # None =>
               \A first \in ArchiveLists, second \in ArchiveLists,
                  first_date \in Times, second_date \in Times,
                  fix \in BOOLEAN :
                  LET merged == MergeSnapshot(rows, now, first, first_date,
                                              first_date, fix)
                      again == MergeSnapshot(merged, now, second, second_date,
                                             second_date, fix)
                  IN LiveRows(merged, r.id) = {} /\ LiveRows(again, r.id) = {})

-----------------------------------------------------------------------------
(* A claim about the multipart upload, checked under SpecApp *)

\* C33: multipart.abort() is called only on a multipart upload that is open:
\* one that initiate_multipart_upload has returned and complete has not
\* completed.  No abort follows a complete that succeeded, whatever
\* add_archive does after it, and none is called when the initiation failed.
C33_AbortOnlyWhileOpen ==
    /\ [][Len(did') > Len(did) /\ did'[Len(did')] = "abort" =>
             multipart.state = "open"]_vars
    /\ [](multipart.state = "none" =>
             \A i \in DOMAIN did : did[i] # "abort")

====
